---------------------------- MODULE Spec2Model ----------------------------
(***************************************************************************)
(* Report execution engine: the Kafka consume loop, the queue handler with *)
(* its idempotency check, the execute_report orchestrator with its         *)
(* SQLAlchemy session, and the two delivery channels (mail, SFTP).         *)
(*                                                                         *)
(* Durable state is what a committed transaction has written; every        *)
(* worker owns a session whose flushed changes reach the durable state     *)
(* only at commit and are discarded by rollback.                           *)
(***************************************************************************)
EXTENDS Integers, Sequences, FiniteSets, TLC

(***************************************************************************)
(* Bounds of the model                                                     *)
(***************************************************************************)
\* number of messages on the topic (duplicates and redeliveries included)
MaxMsgs == 2
\* number of clock ticks the wall clock may advance
MaxTicks == 1
\* first instant of the wall clock (keeps every computed window non-negative)
StartTime == 4

\* a base query is made of at most MaxPieces pieces
MaxPieces == 2

\* a report configuration has at most MaxFilters filters
MaxFilters == 2

(***************************************************************************)
(* Program constants                                                       *)
(***************************************************************************)
\* a nullable TIMESTAMP column holding NULL
NoTime == -1
\* timedelta(days=1) in clock ticks (one tick is half a day)
DAY == 2
\* delivery.max_retry or 3
DEFAULT_MAX_RETRY == 3
\* delivery.retry_interval_minutes or 2 (SFTP, treated as seconds)
SFTP_DEFAULT_RETRY_INTERVAL == 2
\* delivery.retry_interval_minutes or 5 (mail, minutes)
MAIL_DEFAULT_RETRY_INTERVAL == 5
\* overall_timeout = 10 seconds
OVERALL_TIMEOUT == 10

None == "None"
NoSchedule == 0

Procs == {"w1", "w2"}
ExecIds == {"e1", "e2"}
ScheduleIds == {1}

(***************************************************************************)
(* Rows                                                                    *)
(***************************************************************************)
\* report_executions row that does not exist
NoRow ==
    [status |-> "absent", started_at |-> NoTime, completed_at |-> NoTime,
     error_message |-> None, execution_context |-> None]

\* report_executions row written by the upstream producer when it enqueues
QueuedRow ==
    [status |-> "queued", started_at |-> NoTime, completed_at |-> NoTime,
     error_message |-> None, execution_context |-> None]

\* queue messages {execution_id, config_id, schedule_id, executed_by}; the
\* same execution id may arrive again (duplicate or redelivered message)
Messages == [execution_id : ExecIds, schedule_id : {NoSchedule} \cup ScheduleIds]

\* report_deliveries rows: recipients counts the active recipients of a mail
\* delivery, has_fields says whether host, username and password are all
\* present in an SFTP delivery_config, max_retry 0 is an unset column
MailOk      == [id |-> 1, method |-> "email", recipients |-> 2, has_fields |-> TRUE, max_retry |-> 2, retry_interval |-> 0]
MailNoRcpt  == [id |-> 2, method |-> "email", recipients |-> 0, has_fields |-> TRUE, max_retry |-> 0, retry_interval |-> 0]
SftpOk      == [id |-> 3, method |-> "sftp", recipients |-> 0, has_fields |-> TRUE, max_retry |-> 0, retry_interval |-> 0]
SftpNoHost  == [id |-> 4, method |-> "sftp", recipients |-> 0, has_fields |-> FALSE, max_retry |-> 1, retry_interval |-> 0]
Webhook     == [id |-> 5, method |-> "webhook", recipients |-> 0, has_fields |-> TRUE, max_retry |-> 0, retry_interval |-> 0]
MailThrice  == [id |-> 6, method |-> "email", recipients |-> 2, has_fields |-> TRUE, max_retry |-> 3, retry_interval |-> 0]
MailNoTry   == [id |-> 7, method |-> "email", recipients |-> 1, has_fields |-> TRUE, max_retry |-> -1, retry_interval |-> 0]
MailPaced   == [id |-> 8, method |-> "email", recipients |-> 1, has_fields |-> TRUE, max_retry |-> 3, retry_interval |-> 1]
SftpPaced   == [id |-> 9, method |-> "sftp", recipients |-> 0, has_fields |-> TRUE, max_retry |-> 4, retry_interval |-> 1]

\* the active deliveries a config may have (report_deliveries, in id order)
DeliveryLists ==
    { <<>>, <<MailOk>>, <<SftpOk>>, <<Webhook>>, <<MailNoRcpt>>, <<SftpNoHost>>,
      <<MailOk, SftpOk>>, <<Webhook, MailOk>>, <<MailThrice>>,
      <<SftpOk, MailNoRcpt>>, <<MailNoTry>>, <<MailPaced>>, <<SftpPaced>>,
      <<MailNoRcpt, MailOk>>, <<MailOk, Webhook, SftpOk>> }

\* the configs followed over several messages
FewDeliveryLists == { <<>>, <<MailOk>>, <<SftpNoHost>> }

\* the config served where the delivery configuration is not the matter
ConcDeliveryLists == { <<MailOk>> }

\* seconds one SFTP upload attempt may take
AttemptDurations == {1, 6}

\* execution instants handed to calculate_time_range on its own
Instants == StartTime .. (StartTime + MaxTicks + DAY)

\* schedule.last_run_at: NULL or an instant
LastRuns == {NoTime} \cup (0 .. (StartTime + MaxTicks + DAY))

\* schedule.cron_expression: 0 is no expression, -1 an expression croniter
\* rejects, p > 0 an expression that fires at the multiples of p
CronPeriods == {-1, 0, 1, 2, 3}

VARIABLES
    now,            \* wall clock (now_jakarta), in ticks
    nextOffset,     \* offset of the next message of the topic handed to a consumer
    report_deliveries, \* the active report_deliveries rows of the config
    executions,     \* durable report_executions rows, by id
    schedule,       \* durable report_schedules row
    delivery_logs,  \* durable report_delivery_logs rows, in id order
    enabled,        \* the workers that run
    pc,             \* each worker's position
    cons,           \* each worker's consume loop counters
    loc,            \* each worker's local variables
    sess,           \* each worker's database session
    hist,           \* history: committed schedule writes, successful scheduled runs
    call            \* a function called on its own: its arguments, its result

vars == <<now, nextOffset, report_deliveries, executions, schedule, delivery_logs,
          enabled, pc, cons, loc, sess, hist, call>>

(***************************************************************************)
(* Initial state                                                           *)
(***************************************************************************)
NoRange == [start |-> NoTime, end |-> NoTime, method |-> None]

InitLoc ==
    [execution_id |-> None, schedule_id |-> NoSchedule, execution_start |-> NoTime,
     has_execution |-> FALSE, has_schedule |-> FALSE, time_range |-> NoRange,
     deliveries |-> <<>>, di |-> 0, delivery_count |-> 0,
     attempt |-> 0, max_retry |-> 0, elapsed |-> 0, attempts_made |-> 0,
     last_outcome |-> None, mismatches |-> 0, waits |-> <<>>, spent |-> 0,
     send_start_bound |-> FALSE,
     error |-> None, err_step |-> None, rendered |-> FALSE, db_fault |-> FALSE,
     queried |-> FALSE, loaded_status |-> None, result |-> None,
     killed_at |-> None, config_loaded |-> FALSE]

InitSess ==
    [execution |-> NoRow, dirty |-> {}, is_new |-> FALSE, attached |-> FALSE,
     logs |-> <<>>, sched_write |-> NoTime, broken |-> FALSE]

\* message_count, and for the message in hand: the commit attempts made for
\* it, whether its offset was committed, how its handler ended
InitCons == [received |-> 0, commit_attempts |-> 0, acked |-> FALSE, outcome |-> None]

\* no function is called on its own
NoCall == [fn |-> None]

InitState ==
    /\ now = StartTime
    /\ executions = [e \in ExecIds |-> IF e = "e1" THEN QueuedRow ELSE NoRow]
    /\ schedule = [last_run_at |-> NoTime, cron_period |-> DAY]
    /\ delivery_logs = <<>>
    /\ pc = [p \in Procs |-> "poll"]
    /\ cons = [p \in Procs |-> InitCons]
    /\ loc = [p \in Procs |-> InitLoc]
    /\ sess = [p \in Procs |-> InitSess]
    /\ hist = [sched_writes |-> 0, ok_scheduled |-> 0, last_ok_start |-> NoTime,
               last_ok_end |-> NoTime]

InitCommon ==
    /\ InitState
    /\ call = NoCall

\* no worker runs: a function is called on its own
InitIdle ==
    /\ InitState
    /\ enabled = {}
    /\ nextOffset = MaxMsgs + 1
    /\ report_deliveries = <<>>

\* one worker process, MaxMsgs messages to come
Init ==
    /\ InitCommon
    /\ enabled = {"w1"}
    /\ nextOffset = 1
    /\ report_deliveries \in FewDeliveryLists

\* two worker processes of the same consumer group
InitConc ==
    /\ InitCommon
    /\ enabled = Procs
    /\ nextOffset = 1
    /\ report_deliveries \in ConcDeliveryLists

\* one worker process and its consume loop, the clock at rest
InitLoop ==
    /\ InitCommon
    /\ enabled = {"w1"}
    /\ nextOffset = 1
    /\ report_deliveries \in ConcDeliveryLists

\* one worker process, one message to come, any delivery configuration
InitDelivery ==
    /\ InitCommon
    /\ enabled = {"w1"}
    /\ nextOffset = MaxMsgs
    /\ report_deliveries \in DeliveryLists

(***************************************************************************)
(* Wall clock                                                              *)
(***************************************************************************)
\* The clock is read at step 1, at completion and in the except clause of
\* execute_report; time passes while a worker waits for a message or for the
\* datasource to answer.
Tick ==
    /\ now < StartTime + MaxTicks
    /\ \E p \in enabled : pc[p] \in {"poll", "er_query"}
    /\ now' = now + 1
    /\ UNCHANGED call
    /\ UNCHANGED <<nextOffset, report_deliveries, executions, schedule, delivery_logs,
                   enabled, pc, cons, loc, sess, hist>>


(***************************************************************************)
(* The database session of a worker (shared/database.py, SQLAlchemy)       *)
(***************************************************************************)
\* a session commit can succeed: no failed flush is pending, and a pending
\* INSERT does not collide with a row committed meanwhile
CanCommit(p) ==
    /\ ~sess[p].broken
    /\ ~(sess[p].is_new /\ executions[loc[p].execution_id].status # "absent")

\* report_executions after session s of execution id commits: an INSERT
\* writes the whole row, an UPDATE the changed columns
CommittedExecutions(s, id) ==
    LET d == executions[id]
        x == s.execution
    IN  IF ~s.attached THEN executions
        ELSE IF s.is_new THEN [executions EXCEPT ![id] = x]
        ELSE IF s.dirty = {} \/ d.status = "absent" THEN executions
        ELSE [executions EXCEPT ![id] =
                [status            |-> IF "status" \in s.dirty THEN x.status ELSE d.status,
                 started_at        |-> IF "started_at" \in s.dirty THEN x.started_at ELSE d.started_at,
                 completed_at      |-> IF "completed_at" \in s.dirty THEN x.completed_at ELSE d.completed_at,
                 error_message     |-> IF "error_message" \in s.dirty THEN x.error_message ELSE d.error_message,
                 execution_context |-> IF "execution_context" \in s.dirty THEN x.execution_context
                                       ELSE d.execution_context]]

\* the session after a successful commit: nothing is pending
SessionCommitted(s) ==
    [s EXCEPT !.dirty = {}, !.is_new = FALSE, !.logs = <<>>, !.sched_write = NoTime]

\* the session after a rollback: pending changes are discarded, a loaded
\* object is expired (it reads the durable row again), and an object whose
\* INSERT was rolled back is no longer part of the session
SessionRolledBack(s, row) ==
    [s EXCEPT !.dirty = {}, !.logs = <<>>, !.sched_write = NoTime, !.broken = FALSE,
              !.execution = IF s.is_new THEN s.execution ELSE row,
              !.attached = s.attached /\ ~s.is_new,
              !.is_new = FALSE]

\* the history of committed writes to schedule.last_run_at
HistCommitted(s) ==
    [hist EXCEPT !.sched_writes = IF s.sched_write # NoTime THEN @ + 1 ELSE @]

\* db.commit(): the durable state after session s of execution id commits
DbCommit(s, id) ==
    /\ executions' = CommittedExecutions(s, id)
    /\ delivery_logs' = delivery_logs \o s.logs
    /\ schedule' = IF s.sched_write # NoTime
                   THEN [schedule EXCEPT !.last_run_at = s.sched_write]
                   ELSE schedule

DbUnchanged == UNCHANGED <<executions, delivery_logs, schedule>>

(***************************************************************************)
(* Consume loop (execution_engine/kafka_consumer.py)                       *)
(***************************************************************************)
\* for message in self.consumer: the next message is handed to the handler
Consume_Receive(p) ==
    /\ p \in enabled
    /\ pc[p] = "poll"
    /\ nextOffset <= MaxMsgs
    /\ nextOffset' = nextOffset + 1
    /\ cons' = [cons EXCEPT ![p] = [InitCons EXCEPT !.received = cons[p].received + 1]]
    /\ \E m \in Messages :
         loc' = [loc EXCEPT ![p] = [InitLoc EXCEPT !.execution_id = m.execution_id,
                                                   !.schedule_id = m.schedule_id]]
    /\ sess' = [sess EXCEPT ![p] = InitSess]
    /\ pc' = [pc EXCEPT ![p] = "handler"]
    /\ UNCHANGED call
    /\ UNCHANGED <<now, report_deliveries, executions, schedule, delivery_logs, enabled, hist>>

\* a loop that commits only after a handler that returned
CommitAttemptsOnReturnOnly(raised, ok1) ==
    IF raised THEN 0 ELSE IF ok1 THEN 1 ELSE 2

\* the calls of self.consumer.commit() made for one message: one after the
\* handler returned, one in the except block after the handler raised; a
\* commit that raises on the success path is attempted again in the except
\* block
CommitAttempts(raised, ok1) ==
    IF ~raised /\ ~ok1 THEN 2 ELSE 1

\* self.consumer.commit() after the handler returned or raised
Consume_Commit(p) ==
    /\ pc[p] = "commit"
    /\ \E ok1 \in BOOLEAN, ok2 \in BOOLEAN :
         LET raised  == loc[p].result = "raised"
             tries   == CommitAttempts(raised, ok1)
             success == IF ~raised /\ ~ok1 THEN ok2 ELSE ok1
         IN  /\ (raised \/ ok1) => ok2
             /\ cons' = [cons EXCEPT ![p].commit_attempts = tries,
                                     ![p].acked = success,
                                     ![p].outcome = loc[p].result]
    /\ loc' = [loc EXCEPT ![p] = InitLoc]
    /\ pc' = [pc EXCEPT ![p] = "poll"]
    /\ UNCHANGED call
    /\ UNCHANGED <<now, nextOffset, report_deliveries, executions, schedule, delivery_logs,
                   enabled, sess, hist>>

\* an error raised while iterating the consumer (connection loss) or an
\* interrupt ends the loop; finally: self.close()
Consume_Stop(p) ==
    /\ p \in enabled
    /\ pc[p] = "poll"
    /\ pc' = [pc EXCEPT ![p] = "closed"]
    /\ UNCHANGED call
    /\ UNCHANGED <<now, nextOffset, report_deliveries, executions, schedule, delivery_logs,
                   enabled, cons, loc, sess, hist>>

(***************************************************************************)
(* Queue handler (execution_engine/worker.py)                              *)
(***************************************************************************)
\* a handler without the idempotency check
NeverCompleted(id) == FALSE

\* existing and existing.status == 'completed'
AlreadyCompleted(id) ==
    executions[id].status # "absent" /\ executions[id].status = "completed"

\* process_execution_request up to the idempotency check; execute_report
\* then takes execution_start = now_jakarta() before it opens its session
ProcessExecutionRequest(p) ==
    /\ pc[p] = "handler"
    /\ IF AlreadyCompleted(loc[p].execution_id)
       THEN /\ loc' = [loc EXCEPT ![p].result = "skipped"]
            /\ pc' = [pc EXCEPT ![p] = "commit"]
       ELSE /\ loc' = [loc EXCEPT ![p].execution_start = now]
            /\ pc' = [pc EXCEPT ![p] = "er_begin"]
    /\ UNCHANGED call
    /\ UNCHANGED <<now, nextOffset, report_deliveries, executions, schedule, delivery_logs,
                   enabled, cons, sess, hist>>

(***************************************************************************)
(* Time range calculator (services/time_range_calculator.py)               *)
(***************************************************************************)
\* croniter.get_prev: the latest scheduled occurrence strictly before t, for
\* a cron expression that fires at the multiples of period
CronPrev(period, t) == ((t - 1) \div period) * period

\* croniter(expression, ...) accepts the expression
CronValid(period) == period > 0

\* start = schedule.last_run_at, end = execution_time
LastRunWindow(sched, t) ==
    [start |-> sched.last_run_at, end |-> t, method |-> "last_run_at"]

\* a window taken from one get_prev only
CronWindowToNow(sched, t) ==
    [start |-> CronPrev(sched.cron_period, t), end |-> t, method |-> "cron_detection"]

\* end = cron.get_prev(), start = cron.get_prev(): the two previous occurrences
CronWindow(sched, t) ==
    [start  |-> CronPrev(sched.cron_period, CronPrev(sched.cron_period, t)),
     end    |-> CronPrev(sched.cron_period, t),
     method |-> "cron_detection"]

\* a fallback that keeps no day before the execution instant
EmptyWindow(t) ==
    [start |-> t, end |-> t, method |-> "default_daily"]

\* start = execution_time - timedelta(days=1), end = execution_time
DefaultWindow(t) ==
    [start |-> t - DAY, end |-> t, method |-> "default_daily"]

\* a calculator that asks the cron expression first
calculate_time_range_cron_first(has, sched, t) ==
    IF has /\ sched.cron_period # 0 /\ CronValid(sched.cron_period)
    THEN CronWindow(sched, t)
    ELSE IF has /\ sched.last_run_at # NoTime
    THEN LastRunWindow(sched, t)
    ELSE DefaultWindow(t)

\* calculate_time_range(schedule, execution_time); has says whether a
\* schedule was given. The execution time is naive: localizing it to the
\* schedule's timezone and dropping the tzinfo again leaves it as it is.
calculate_time_range(has, sched, t) ==
    IF has /\ sched.last_run_at # NoTime
    THEN LastRunWindow(sched, t)
    ELSE IF has /\ sched.cron_period # 0
    THEN IF CronValid(sched.cron_period)
         THEN CronWindow(sched, t)
         ELSE DefaultWindow(t)
    ELSE DefaultWindow(t)

\* calculate_time_range called on its own
TR_Call ==
    /\ call.fn = "calculate_time_range"
    /\ ~call.done
    /\ call' = [call EXCEPT !.result = calculate_time_range(call.has, call.sched, call.t),
                            !.done = TRUE]
    /\ UNCHANGED <<now, nextOffset, report_deliveries, executions, schedule, delivery_logs,
                   enabled, pc, cons, loc, sess, hist>>

(***************************************************************************)
(* Text (Python str): a string is the sequence of its characters           *)
(***************************************************************************)
\* the element of a set of one element; {e(v) : v \in {x}} computes x once,
\* as an assignment v = x in front of e does
The(S) == CHOOSE y \in S : TRUE

LowerLetters == <<"a", "b", "c", "d", "e", "f", "g", "h", "i", "j", "k", "l", "m", "n", "o", "p", "q", "r", "s", "t", "u", "v", "w", "x", "y", "z">>

UpperLetters == <<"A", "B", "C", "D", "E", "F", "G", "H", "I", "J", "K", "L", "M", "N", "O", "P", "Q", "R", "S", "T", "U", "V", "W", "X", "Y", "Z">>

\* the upper-case letter of every lower-case letter
UpperOf == [c \in {LowerLetters[i] : i \in 1..Len(LowerLetters)} |->
               UpperLetters[CHOOSE i \in 1..Len(LowerLetters) : LowerLetters[i] = c]]

\* the lower-case letter of every upper-case letter
LowerOf == [c \in {UpperLetters[i] : i \in 1..Len(UpperLetters)} |->
               LowerLetters[CHOOSE i \in 1..Len(UpperLetters) : UpperLetters[i] = c]]

\* str.upper() of one character; the upper case of the sharp s is two letters
UpperChar(c) ==
    IF c = "ß" THEN <<"S", "S">>
    ELSE IF c \in DOMAIN UpperOf THEN <<UpperOf[c]>>
    ELSE <<c>>

\* str.lower() of one character
LowerChar(c) == IF c \in DOMAIN LowerOf THEN LowerOf[c] ELSE c

\* str.upper(): the upper case of every character, in order
RECURSIVE upper(_)
upper(s) ==
    IF s = <<>> THEN <<>>
    ELSE IF Len(s) = 1 THEN UpperChar(s[1])
    ELSE upper(SubSeq(s, 1, Len(s) \div 2)) \o upper(SubSeq(s, (Len(s) \div 2) + 1, Len(s)))

\* str.lower()
lower(s) == [i \in 1..Len(s) |-> LowerChar(s[i])]

\* s[i:i+len(sub)] == sub, i counted from 0
StartsAt(s, sub, i) ==
    /\ i + Len(sub) <= Len(s)
    /\ \A j \in 1..Len(sub) : s[i + j] = sub[j]

\* s.find(sub): the lowest index where sub starts, -1 when there is none
find(s, sub) ==
    LET starts == {i \in 0..(Len(s) - Len(sub)) : StartsAt(s, sub, i)}
    IN  IF starts = {} THEN -1
        ELSE CHOOSE i \in starts : \A j \in starts : i <= j

\* sub in s
contains(s, sub) == find(s, sub) # -1

Whitespace == {" ", "\n", "\t"}

\* s.rstrip()
RECURSIVE rstrip(_)
rstrip(s) ==
    IF s # <<>> /\ s[Len(s)] \in Whitespace
    THEN rstrip(SubSeq(s, 1, Len(s) - 1))
    ELSE s

\* s.replace(old, new): every occurrence, left to right, without overlap
RECURSIVE replace(_, _, _)
replace(s, old, new) ==
    The({ IF pos = -1
          THEN s
          ELSE SubSeq(s, 1, pos) \o new
               \o The({ replace(rest, old, new) :
                          rest \in {SubSeq(s, pos + Len(old) + 1, Len(s))} }) :
          pos \in {find(s, old)} })

\* sep.join(parts)
RECURSIVE join(_, _)
join(sep, parts) ==
    IF parts = <<>> THEN <<>>
    ELSE IF Len(parts) = 1 THEN parts[1]
    ELSE parts[1] \o sep \o join(sep, Tail(parts))

\* the concatenation of a sequence of strings
Concat(parts) == join(<<>>, parts)

\* every sequence of at most n elements of S
SeqsUpTo(S, n) == UNION {[1..k -> S] : k \in 0..n}

(***************************************************************************)
(* Query builder (services/query_builder.py)                               *)
(***************************************************************************)
\* filter_def.get('value'): None, a string, a number or a list of strings
NoValue == [kind |-> "none", text |-> <<>>, items |-> <<>>]

StrValue(s) == [kind |-> "str", text |-> s, items |-> <<>>]

IntValue(s) == [kind |-> "int", text |-> s, items |-> <<>>]

ListValue(l) == [kind |-> "list", text |-> <<>>, items |-> l]

\* one entry of parameters.filters
Filter(type, field, operator, value) ==
    [type |-> type, field |-> field, operator |-> operator, value |-> value]

\* the filters an operator may configure
Filters ==
    { Filter("string", <<"s", "t", "a", "t", "u", "s">>, <<"=">>, StrValue(<<"p", "a", "i", "d">>)),
      Filter("number", <<"a", "m", "o", "u", "n", "t">>, <<">", "=">>, IntValue(<<"1", "0", "0">>)),
      Filter("string", <<"r", "e", "g", "i", "o", "n">>, <<"I", "N">>, ListValue(<<<<"i", "d">>, <<"s", "g">>>>)),
      Filter("string", <<"n", "a", "m", "e">>, <<"L", "I", "K", "E">>, StrValue(<<"b", "o">>)),
      Filter("string", <<"r", "e", "g", "i", "o", "n">>, <<"=">>, NoValue),
      Filter("date", <<"d", "a", "y">>, <<"=">>, StrValue(<<"2", "0", "2", "5", "-", "1", "0", "-", "0", "5">>)),
      Filter("string", <<"c", "r", "e", "a", "t", "e", "d", "_", "a", "t">>, <<">", "=">>, StrValue(<<"2", "0", "2", "5", "-", "1", "0", "-", "0", "5">>)),
      Filter("string", <<"P", "a", "y", "m", "e", "n", "t", "_", "D", "A", "T", "E">>, <<"=">>, StrValue(<<"2", "0", "2", "5", "-", "1", "0", "-", "0", "5">>)),
      Filter("number", <<"l", "i", "f", "e", "t", "i", "m", "e", "_", "v", "a", "l", "u", "e">>, <<">">>, IntValue(<<"0">>)) }

\* the pieces base queries are made of
QueryPieces ==
    { <<"S", "E", "L", "E", "C", "T", " ", "i", "d", " ", "F", "R", "O", "M", " ", "t">>, <<" ">>, <<" ", "W", "H", "E", "R", "E", " ", "'", "ß", "'", " ", "=", " ", "s">>, <<" ", "O", "R", "D", "E", "R", " ", "B", "Y", " ", "i", "d">>,
      <<" ", "o", "r", "d", "e", "r", " ", "b", "y", " ", "i", "d">>, <<" ", "L", "I", "M", "I", "T", " ", "5">>, <<" ", "G", "R", "O", "U", "P", " ", "B", "Y", " ", "i", "d">>, <<" ", "H", "A", "V", "I", "N", "G", " ", "n", " ", ">", " ", "1">>,
      <<" ", "-", "-", " ", "l", "i", "m", "i", "t", "e", "d">> }

\* the base queries: at most n pieces, one after the other
Queries(n) == {Concat(ps) : ps \in SeqsUpTo(QueryPieces, n)}

date_patterns ==
    << <<"D", "A", "T", "E", "(">>, <<"T", "I", "M", "E", "S", "T", "A", "M", "P", "(">>, <<"c", "r", "e", "a", "t", "e", "d", "_", "a", "t">>, <<"u", "p", "d", "a", "t", "e", "d", "_", "a", "t">>, <<"d", "e", "l", "e", "t", "e", "d", "_", "a", "t">>,
       <<"d", "a", "t", "e", "_">>, <<"_", "d", "a", "t", "e">>, <<"d", "a", "t", "e", "t", "i", "m", "e">>, <<"t", "i", "m", "e", "_">> >>

\* a filter is skipped only when its type says date
is_date_typed(filter_def) == filter_def.type = "date"

\* is_date_filter(filter_def)
is_date_filter(filter_def) ==
    \/ filter_def.type = "date"
    \/ \E i \in 1..Len(date_patterns) :
           contains(lower(filter_def.field), lower(date_patterns[i]))

\* "{{key}}"
Placeholder(key) == <<"{", "{">> \o key \o <<"}", "}">>

\* for key, value in mapping.items(): text = text.replace("{{key}}", value)
RECURSIVE ReplaceEach(_, _)
ReplaceEach(text, mapping) ==
    IF mapping = <<>> THEN text
    ELSE The({ The({ ReplaceEach(replaced, Tail(mapping)) :
                         replaced \in {replace(text, placeholder, mapping[1].value)} }) :
               placeholder \in {Placeholder(mapping[1].key)} })

\* the value written into the condition: template variables are replaced in
\* a string value only; a list is written as Python writes it
ValueText(value, template_vars) ==
    IF value.kind = "str" THEN ReplaceEach(value.text, template_vars)
    ELSE IF value.kind = "int" THEN value.text
    ELSE <<"[">> \o join(<<",", " ">>, [i \in 1..Len(value.items) |->
                                <<"'">> \o value.items[i] \o <<"'">>]) \o <<"]">>

ComparisonOperators == { <<"=">>, <<"!", "=">>, <<">">>, <<">", "=">>, <<"<">>, <<"<", "=">> }

\* the condition of one filter
Condition(filter_def, template_vars) ==
    LET field == filter_def.field
        operator == filter_def.operator
        written == ValueText(filter_def.value, template_vars)
        quoted == field \o <<" ", "=", " ", "'">> \o written \o <<"'">>
    IN  IF operator \in ComparisonOperators
        THEN IF filter_def.type = "number"
             THEN field \o <<" ">> \o operator \o <<" ">> \o written
             ELSE field \o <<" ">> \o operator \o <<" ", "'">> \o written \o <<"'">>
        ELSE IF operator = <<"L", "I", "K", "E">>
        THEN field \o <<" ", "L", "I", "K", "E", " ", "'", "%">> \o written \o <<"%", "'">>
        ELSE IF operator = <<"I", "N">>
        THEN IF filter_def.value.kind = "list"
             THEN field \o <<" ", "I", "N", " ", "(">>
                  \o join(<<",", " ">>, [i \in 1..Len(filter_def.value.items) |->
                                    <<"'">> \o filter_def.value.items[i] \o <<"'">>])
                  \o <<")">>
             ELSE quoted
        ELSE quoted

\* where_conditions: the conditions of the filters the loop does not skip
RECURSIVE where_conditions(_, _)
where_conditions(filters, template_vars) ==
    IF filters = <<>> THEN <<>>
    ELSE IF is_date_filter(filters[1]) \/ filters[1].value.kind = "none"
    THEN where_conditions(Tail(filters), template_vars)
    ELSE <<Condition(filters[1], template_vars)>>
         \o where_conditions(Tail(filters), template_vars)

insertion_keywords == << <<"O", "R", "D", "E", "R", " ", "B", "Y">>, <<"L", "I", "M", "I", "T">>, <<"G", "R", "O", "U", "P", " ", "B", "Y">>, <<"H", "A", "V", "I", "N", "G">> >>

\* the positions query_upper.find(keyword) returns for the keywords
KeywordPositions(query_upper) ==
    {find(query_upper, insertion_keywords[i]) : i \in 1..Len(insertion_keywords)} \ {-1}

\* insertion_pos: the lowest position found, len(base_query) when none is
InsertionPos(base_query) ==
    LET found == The({ KeywordPositions(query_upper) :
                           query_upper \in {upper(base_query)} })
        below == {pos \in found : pos < Len(base_query)}
    IN  IF below = {} THEN Len(base_query)
        ELSE CHOOSE pos \in below : \A q \in below : pos <= q

\* 'WHERE' in query_upper
HasWhere(base_query) == contains(upper(base_query), <<"W", "H", "E", "R", "E">>)

\* base_query[:insertion_pos].rstrip() + "\n" + clause + "\n" + base_query[insertion_pos:]
InsertClause(base_query, clause) ==
    The({ rstrip(SubSeq(base_query, 1, insertion_pos)) \o <<"\n">> \o clause \o <<"\n">>
          \o SubSeq(base_query, insertion_pos + 1, Len(base_query)) :
          insertion_pos \in {InsertionPos(base_query)} })

\* apply_filters_to_query(base_query, filters, template_vars)
apply_filters_to_query(base_query, filters, template_vars) ==
    The({ IF conditions = <<>>
          THEN base_query
          ELSE InsertClause(base_query,
                            (IF HasWhere(base_query) THEN <<"A", "N", "D", " ">>
                             ELSE <<"W", "H", "E", "R", "E", " ">>)
                            \o join(<<" ", "A", "N", "D", " ">>, conditions)) :
          conditions \in {where_conditions(filters, template_vars)} })

\* apply_filters_to_query called on its own, without template variables
QB_Call ==
    /\ call.fn = "apply_filters_to_query"
    /\ ~call.done
    /\ call' = [call EXCEPT
                   !.result = apply_filters_to_query(call.base_query, call.filters, <<>>),
                   !.done = TRUE]
    /\ UNCHANGED <<now, nextOffset, report_deliveries, executions, schedule, delivery_logs,
                   enabled, pc, cons, loc, sess, hist>>

(***************************************************************************)
(* Template variables (services/time_range_calculator.py) and the query    *)
(* building step of the orchestrator (executor.py, steps 3b and 4)         *)
(***************************************************************************)
Digits == <<"0", "1", "2", "3", "4", "5", "6", "7", "8", "9">>

\* two decimal digits, as %m, %d, %H write them
Pad2(n) == <<Digits[(n \div 10) + 1], Digits[(n % 10) + 1]>>

\* str(n) of a natural number
RECURSIVE NatText(_)
NatText(n) == IF n < 10 THEN <<Digits[n + 1]>> ELSE NatText(n \div 10) \o <<Digits[(n % 10) + 1]>>

\* the days of the months of 2025
MonthDays == <<31, 28, 31, 30, 31, 30, 31, 31, 30, 31, 30, 31>>

\* month and day of month of a day of the year (counted from 0)
RECURSIVE MonthAndDay(_, _)
MonthAndDay(day_of_year, month) ==
    IF day_of_year < MonthDays[month]
    THEN <<month, day_of_year + 1>>
    ELSE MonthAndDay(day_of_year - MonthDays[month], month + 1)

\* the calendar day of an instant: instant 0 is 2025-10-01 02:00:00, the
\* 274th day of the year, and DAY ticks make a day
DayOf(t) == (31 + 28 + 31 + 30 + 31 + 30 + 31 + 31 + 30) + (t \div DAY)

\* strftime('%Y-%m-%d')
DateText(t) ==
    LET md == MonthAndDay(DayOf(t), 1)
    IN  <<"2", "0", "2", "5", "-">> \o Pad2(md[1]) \o <<"-">> \o Pad2(md[2])

\* strftime('%H')
HourText(t) == Pad2(2 + (t % DAY) * (24 \div DAY))

\* strftime('%H:%M:%S')
TimeText(t) == HourText(t) \o <<":", "0", "0", ":", "0", "0">>

\* strftime('%Y-%m-%d %H:%M:%S')
DateTimeText(t) == DateText(t) \o <<" ">> \o TimeText(t)

\* str(round(x, 2)) of a whole number of hours or minutes
FloatText(n) == (IF n < 0 THEN <<"-">> \o NatText(0 - n) ELSE NatText(n)) \o <<".", "0">>

\* one item of a dict
Item(key, value) == [key |-> key, value |-> value]

\* the dict calculate_time_range returns, in the order of its keys
TimeRangeDict(range) ==
    LET start == range.start
        end == range["end"]
        hours == (end - start) * (24 \div DAY)
    IN  << Item(<<"s", "t", "a", "r", "t", "_", "d", "a", "t", "e", "t", "i", "m", "e">>, DateTimeText(start)),
           Item(<<"e", "n", "d", "_", "d", "a", "t", "e", "t", "i", "m", "e">>, DateTimeText(end)),
           Item(<<"s", "t", "a", "r", "t", "_", "d", "a", "t", "e">>, DateText(start)),
           Item(<<"e", "n", "d", "_", "d", "a", "t", "e">>, DateText(end)),
           Item(<<"s", "t", "a", "r", "t", "_", "t", "i", "m", "e">>, TimeText(start)),
           Item(<<"e", "n", "d", "_", "t", "i", "m", "e">>, TimeText(end)),
           Item(<<"i", "n", "t", "e", "r", "v", "a", "l", "_", "h", "o", "u", "r", "s">>, FloatText(hours)),
           Item(<<"i", "n", "t", "e", "r", "v", "a", "l", "_", "m", "i", "n", "u", "t", "e", "s">>, FloatText(hours * 60)),
           Item(<<"c", "a", "l", "c", "u", "l", "a", "t", "i", "o", "n", "_", "m", "e", "t", "h", "o", "d">>,
                IF range.method = "last_run_at" THEN <<"l", "a", "s", "t", "_", "r", "u", "n", "_", "a", "t">>
                ELSE IF range.method = "cron_detection" THEN <<"c", "r", "o", "n", "_", "d", "e", "t", "e", "c", "t", "i", "o", "n">>
                ELSE <<"d", "e", "f", "a", "u", "l", "t", "_", "d", "a", "i", "l", "y">>),
           Item(<<"y", "e", "s", "t", "e", "r", "d", "a", "y">>, DateText(end - DAY)),
           Item(<<"l", "a", "s", "t", "_", "w", "e", "e", "k">>, DateText(end - 7 * DAY)),
           Item(<<"l", "a", "s", "t", "_", "m", "o", "n", "t", "h">>, DateText(end - 30 * DAY)),
           Item(<<"e", "x", "e", "c", "u", "t", "i", "o", "n", "_", "t", "i", "m", "e">>, DateTimeText(end)),
           Item(<<"e", "x", "e", "c", "u", "t", "i", "o", "n", "_", "d", "a", "t", "e">>, DateText(end)),
           Item(<<"e", "x", "e", "c", "u", "t", "i", "o", "n", "_", "h", "o", "u", "r">>, HourText(end)) >>

\* replace_template_variables(query, time_range)
replace_template_variables(query, time_range) == ReplaceEach(query, time_range)

\* d.get(key): the value of the key, None when the dict has no such key
Get(d, key) ==
    IF \E i \in 1..Len(d) : d[i].key = key
    THEN d[CHOOSE i \in 1..Len(d) : d[i].key = key].value
    ELSE <<"N", "o", "n", "e">>

\* d[key] = value: a key the dict has keeps its place
SetItem(d, key, value) ==
    IF \E i \in 1..Len(d) : d[i].key = key
    THEN [i \in 1..Len(d) |-> IF d[i].key = key THEN Item(key, value) ELSE d[i]]
    ELSE Append(d, Item(key, value))

\* field.split('.')[-1]
RECURSIVE AfterLastDot(_)
AfterLastDot(field) ==
    IF find(field, <<".">>) = -1 THEN field
    ELSE AfterLastDot(SubSeq(field, find(field, <<".">>) + 2, Len(field)))

\* step 3b and time_range.update(filter_variables): every filter with a
\* field and a value gives a template variable named after its field
RECURSIVE WithFilterVariables(_, _)
WithFilterVariables(time_range, filters) ==
    IF filters = <<>> THEN time_range
    ELSE LET f == filters[1]
             value == IF f.value.kind = "list" THEN join(<<",", " ">>, f.value.items)
                      ELSE f.value.text
         IN  IF f.field # <<>> /\ f.value.kind # "none"
             THEN The({ WithFilterVariables(updated, Tail(filters)) :
                        updated \in {SetItem(time_range, AfterLastDot(f.field), value)} })
             ELSE WithFilterVariables(time_range, Tail(filters))

\* cron_expression.split(): the words between the blanks
RECURSIVE split(_)
split(s) ==
    IF s = <<>> THEN <<>>
    ELSE IF s[1] \in Whitespace THEN split(Tail(s))
    ELSE LET n == IF \E i \in 1..Len(s) : s[i] \in Whitespace
                  THEN (CHOOSE i \in 1..Len(s) :
                            s[i] \in Whitespace /\ \A j \in 1..(i - 1) : s[j] \notin Whitespace) - 1
                  ELSE Len(s)
         IN  <<SubSeq(s, 1, n)>> \o split(SubSeq(s, n + 1, Len(s)))

\* the granularity build_auto_date_filter reads from the cron expression;
\* an absent expression is the empty text
Granularity(cron_expression) ==
    LET parts == split(cron_expression)
    IN  IF Len(parts) < 5 THEN "daily"
        ELSE IF parts[1] # <<"*">> /\ parts[2] = <<"*">> THEN "hourly"
        ELSE IF Len(parts[1]) >= 2 /\ SubSeq(parts[1], 1, 2) = <<"*", "/">> THEN "sub_hourly"
        ELSE IF parts[5] # <<"*">> THEN "weekly"
        ELSE IF parts[3] = <<"1">> /\ parts[4] = <<"*">> THEN "monthly"
        ELSE "daily"

\* build_auto_date_filter(date_field, time_range, cron_expression)
build_auto_date_filter(date_field, time_range, cron_expression) ==
    LET granularity == Granularity(cron_expression)
    IN  IF date_field = <<>> THEN <<>>
        ELSE IF granularity = "daily"
        THEN <<"D", "A", "T", "E", "(">> \o date_field \o <<")", " ", "=", " ", "'">> \o Get(time_range, <<"y", "e", "s", "t", "e", "r", "d", "a", "y">>) \o <<"'">>
        ELSE IF granularity \in {"hourly", "sub_hourly"}
        THEN date_field \o <<" ", "B", "E", "T", "W", "E", "E", "N", " ", "'">> \o Get(time_range, <<"s", "t", "a", "r", "t", "_", "d", "a", "t", "e", "t", "i", "m", "e">>)
             \o <<"'", " ", "A", "N", "D", " ", "'">> \o Get(time_range, <<"e", "n", "d", "_", "d", "a", "t", "e", "t", "i", "m", "e">>) \o <<"'">>
        ELSE <<"D", "A", "T", "E", "(">> \o date_field \o <<")", " ", "B", "E", "T", "W", "E", "E", "N", " ", "'">> \o Get(time_range, <<"s", "t", "a", "r", "t", "_", "d", "a", "t", "e">>)
             \o <<"'", " ", "A", "N", "D", " ", "'">> \o Get(time_range, <<"e", "n", "d", "_", "d", "a", "t", "e">>) \o <<"'">>

\* step 4a: the date condition goes in front of the first keyword found
WithDateFilter(base_query, date_field, time_range, cron_expression) ==
    LET date_filter == build_auto_date_filter(date_field, time_range, cron_expression)
    IN  IF date_field = <<>> \/ date_filter = <<>>
        THEN base_query
        ELSE InsertClause(base_query,
                          (IF HasWhere(base_query) THEN <<"A", "N", "D", " ">> ELSE <<"W", "H", "E", "R", "E", " ">>)
                          \o date_filter)

\* step 4b: the configured filters, when there are any
WithStaticFilters(base_query, filters, time_range) ==
    IF filters = <<>> THEN base_query
    ELSE apply_filters_to_query(base_query, filters, time_range)

\* steps 3 to 4c of execute_report: the final query of an execution at
\* instant t; cron is the schedule's expression with the period it fires at
FinalQuery(report_query, date_field, filters, has, last_run_at, cron, t) ==
    LET sched == [last_run_at |-> last_run_at, cron_period |-> cron.period]
        cron_expr == IF has THEN cron.text ELSE <<>>
    IN  The({ The({ The({ replace_template_variables(filtered, time_range) :
                              filtered \in {WithStaticFilters(dated, filters, time_range)} }) :
                        dated \in {WithDateFilter(report_query, date_field, time_range,
                                                  cron_expr)} }) :
                  time_range \in {WithFilterVariables(
                                     TimeRangeDict(calculate_time_range(has, sched, t)),
                                     filters)} })

\* the query building steps called on their own
BQ_Call ==
    /\ call.fn = "build_query"
    /\ ~call.done
    /\ call' = [call EXCEPT
                   !.result = FinalQuery(call.report_query, call.date_field, call.filters,
                                         call.has, call.last_run_at, call.cron, call.t),
                   !.done = TRUE]
    /\ UNCHANGED <<now, nextOffset, report_deliveries, executions, schedule, delivery_logs,
                   enabled, pc, cons, loc, sess, hist>>

\* replace_template_variables called on its own
RT_Call ==
    /\ call.fn = "replace_template_variables"
    /\ call.passes = 0
    /\ call' = [call EXCEPT !.first = replace_template_variables(call.query, call.time_range),
                            !.passes = 1]
    /\ UNCHANGED <<now, nextOffset, report_deliveries, executions, schedule, delivery_logs,
                   enabled, pc, cons, loc, sess, hist>>

\* replace_template_variables called again on what it returned
RT_Again ==
    /\ call.fn = "replace_template_variables"
    /\ call.passes = 1
    /\ call' = [call EXCEPT !.second = replace_template_variables(call.first, call.time_range),
                            !.passes = 2]
    /\ UNCHANGED <<now, nextOffset, report_deliveries, executions, schedule, delivery_logs,
                   enabled, pc, cons, loc, sess, hist>>

(***************************************************************************)
(* Orchestrator (services/executor.py, execute_report)                     *)
(***************************************************************************)
\* an exception e reaches the except clause of execute_report
Raise(l, e, step) ==
    [l EXCEPT !.error = e, !.err_step = step]

\* STEP 1: create or update the execution record, status 'running'
ER_Begin(p) ==
    /\ pc[p] = "er_begin"
    /\ \E o \in {"ok", "query_fail", "flush_fail"} :
         LET id  == loc[p].execution_id
             row == executions[id]
             lq  == loc[p]
             l0  == [lq EXCEPT !.loaded_status = row.status]
         IN  IF o = "query_fail"
             THEN /\ loc' = [loc EXCEPT ![p] = [Raise(lq, "db error", "step1")
                                                  EXCEPT !.db_fault = TRUE]]
                  /\ sess' = [sess EXCEPT ![p].broken = TRUE]
                  /\ pc' = [pc EXCEPT ![p] = "er_except"]
             ELSE /\ sess' = [sess EXCEPT ![p] =
                        [@ EXCEPT !.execution = IF row.status # "absent"
                                                THEN [row EXCEPT !.status = "running",
                                                                 !.started_at = lq.execution_start]
                                                ELSE [NoRow EXCEPT !.status = "running",
                                                                   !.started_at = lq.execution_start],
                                  !.dirty = IF row.status # "absent"
                                            THEN {"status", "started_at"} ELSE {},
                                  !.is_new = (row.status = "absent"),
                                  !.attached = TRUE,
                                  !.broken = (o = "flush_fail")]]
                  /\ IF o = "ok"
                     THEN /\ loc' = [loc EXCEPT ![p] = [l0 EXCEPT !.has_execution = TRUE]]
                          /\ pc' = [pc EXCEPT ![p] = "er_load"]
                     ELSE /\ loc' = [loc EXCEPT ![p] =
                                [Raise(l0, "db error", "step1")
                                   EXCEPT !.has_execution = TRUE, !.db_fault = TRUE]]
                          /\ pc' = [pc EXCEPT ![p] = "er_except"]
    /\ UNCHANGED call
    /\ UNCHANGED <<now, nextOffset, report_deliveries, executions, schedule, delivery_logs,
                   enabled, cons, hist>>

\* STEP 2: load config, datasource and active deliveries
ER_LoadConfig(p) ==
    /\ pc[p] = "er_load"
    /\ \/ /\ loc' = [loc EXCEPT ![p].deliveries = report_deliveries,
                                ![p].config_loaded = TRUE]
          /\ pc' = [pc EXCEPT ![p] = "er_timerange"]
       \/ \E e \in {"Config not found or inactive", "Datasource not found or inactive"} :
            /\ loc' = [loc EXCEPT ![p] = Raise(@, e, "step2")]
            /\ pc' = [pc EXCEPT ![p] = "er_except"]
    /\ UNCHANGED call
    /\ UNCHANGED <<now, nextOffset, report_deliveries, executions, schedule, delivery_logs,
                   enabled, cons, sess, hist>>

\* STEP 3: look the schedule up, calculate the time range, merge the filter
\* variables (a malformed filter entry raises)
ER_TimeRange(p) ==
    /\ pc[p] = "er_timerange"
    /\ \/ LET has == loc[p].schedule_id \in ScheduleIds
          IN  /\ loc' = [loc EXCEPT ![p].has_schedule = has,
                                    ![p].time_range =
                                        calculate_time_range(has, schedule,
                                                             loc[p].execution_start)]
              /\ pc' = [pc EXCEPT ![p] = "er_build"]
       \/ /\ loc' = [loc EXCEPT ![p] = Raise(@, "filter error", "step3")]
          /\ pc' = [pc EXCEPT ![p] = "er_except"]
    /\ UNCHANGED call
    /\ UNCHANGED <<now, nextOffset, report_deliveries, executions, schedule, delivery_logs,
                   enabled, cons, sess, hist>>

\* STEP 4: build the final query, store the execution context, flush
ER_BuildQuery(p) ==
    /\ pc[p] = "er_build"
    /\ \E o \in {"ok", "build_error", "flush_fail"} :
         IF o = "build_error"
         THEN /\ loc' = [loc EXCEPT ![p] = Raise(@, "query build error", "step4")]
              /\ sess' = sess
              /\ pc' = [pc EXCEPT ![p] = "er_except"]
         ELSE /\ sess' = [sess EXCEPT ![p].execution.execution_context = "context",
                                      ![p].dirty = @ \cup {"execution_context"},
                                      ![p].broken = (o = "flush_fail")]
              /\ IF o = "ok"
                 THEN /\ loc' = loc
                      /\ pc' = [pc EXCEPT ![p] = "er_query"]
                 ELSE /\ loc' = [loc EXCEPT ![p] = [Raise(@, "db error", "step4")
                                                      EXCEPT !.db_fault = TRUE]]
                      /\ pc' = [pc EXCEPT ![p] = "er_except"]
    /\ UNCHANGED call
    /\ UNCHANGED <<now, nextOffset, report_deliveries, executions, schedule, delivery_logs,
                   enabled, cons, hist>>

\* STEP 5: execute the query on the datasource
ER_RunQuery(p) ==
    /\ pc[p] = "er_query"
    /\ \/ /\ loc' = [loc EXCEPT ![p].queried = TRUE]
          /\ pc' = [pc EXCEPT ![p] = "er_render"]
       \/ \E e \in {"Unsupported datasource type", "query error"} :
            /\ loc' = [loc EXCEPT ![p] = Raise(@, e, "step5")]
            /\ pc' = [pc EXCEPT ![p] = "er_except"]
    /\ UNCHANGED call
    /\ UNCHANGED <<now, nextOffset, report_deliveries, executions, schedule, delivery_logs,
                   enabled, cons, sess, hist>>

\* an orchestrator that queries again once the file is written
AfterRenderQueryAgain == "er_query"

\* the step that follows STEP 6: the delivery loop of STEP 7
AfterRender == "er_deliver"

\* STEP 6: convert to the output format, record the file, flush
ER_Render(p) ==
    /\ pc[p] = "er_render"
    /\ \E o \in {"ok", "render_error", "flush_fail"} :
         IF o = "render_error"
         THEN /\ loc' = [loc EXCEPT ![p] = Raise(@, "render error", "step6")]
              /\ sess' = sess
              /\ pc' = [pc EXCEPT ![p] = "er_except"]
         ELSE /\ sess' = [sess EXCEPT ![p].broken = (o = "flush_fail")]
              /\ IF o = "ok"
                 THEN /\ loc' = [loc EXCEPT ![p].rendered = TRUE, ![p].di = 1]
                      /\ pc' = [pc EXCEPT ![p] = AfterRender]
                 ELSE /\ loc' = [loc EXCEPT ![p] = [Raise(@, "db error", "step6")
                                                      EXCEPT !.db_fault = TRUE]]
                      /\ pc' = [pc EXCEPT ![p] = "er_except"]
    /\ UNCHANGED call
    /\ UNCHANGED <<now, nextOffset, report_deliveries, executions, schedule, delivery_logs,
                   enabled, cons, hist>>

(***************************************************************************)
(* Delivery channels (deliverers/mailgun_deliverer.py, sftp_deliverer.py)  *)
(***************************************************************************)
\* ReportDeliveryLog(status='pending') of delivery d for an execution
PendingLog(id, d) ==
    [execution_id |-> id, delivery_id |-> d.id, status |-> "pending",
     retry_count |-> 0, recipient_count |-> 0, success_count |-> 0,
     failure_count |-> 0, error_message |-> None]

\* recipients of a delivery: the active recipients (mail), one destination (SFTP)
RecipientCount(d) == IF d.method = "email" THEN d.recipients ELSE 1

\* a success branch that stores the number of the attempt that went through
SuccessLogCountingAttempts(d, lg, attempt) ==
    [lg EXCEPT !.status = "success", !.recipient_count = RecipientCount(d),
               !.success_count = RecipientCount(d), !.failure_count = 0,
               !.retry_count = attempt]

\* the success branch of the retry loop
SuccessLog(d, lg, attempt) ==
    [lg EXCEPT !.status = "success", !.recipient_count = RecipientCount(d),
               !.success_count = RecipientCount(d), !.failure_count = 0,
               !.retry_count = attempt - 1]

\* the except branch of a deliverer, with send_start bound
FailedLog(d, lg, mr, err) ==
    [lg EXCEPT !.status = "failed", !.recipient_count = RecipientCount(d),
               !.success_count = 0, !.failure_count = RecipientCount(d),
               !.retry_count = mr, !.error_message = err]

\* if not recipients: raise ValueError (mail);
\* if not host / username / password: raise ValueError (SFTP)
InvalidDelivery(d) ==
    \/ d.method = "email" /\ d.recipients = 0
    \/ d.method = "sftp" /\ ~d.has_fields

\* max_retry = delivery.max_retry or 3
MaxRetry(d) == IF d.max_retry # 0 THEN d.max_retry ELSE DEFAULT_MAX_RETRY

\* a wait that does not grow with the attempt number
WaitSecondsFlat(d, a) ==
    IF d.method = "email"
    THEN (IF d.retry_interval # 0 THEN d.retry_interval ELSE MAIL_DEFAULT_RETRY_INTERVAL) * 60
    ELSE (IF d.retry_interval # 0 THEN d.retry_interval ELSE SFTP_DEFAULT_RETRY_INTERVAL)

\* seconds slept after failed attempt a: retry_interval * 60 * a (mail),
\* retry_interval * a (SFTP)
WaitSeconds(d, a) ==
    IF d.method = "email"
    THEN (IF d.retry_interval # 0 THEN d.retry_interval ELSE MAIL_DEFAULT_RETRY_INTERVAL) * 60 * a
    ELSE (IF d.retry_interval # 0 THEN d.retry_interval ELSE SFTP_DEFAULT_RETRY_INTERVAL) * a

\* what one pass of the retry loop can meet: the transfer goes through, it
\* raises, or (SFTP) the file is put but its remote size is not the local one
AttemptOutcomes(d) ==
    IF d.method = "sftp" THEN {"ok", "error", "size_mismatch"} ELSE {"ok", "error"}

\* an upload that is taken as done whenever the file was put
TransferredUnverified(outcome) == outcome # "error"

\* the call returns: send_email_via_mailgun went through, or the file was
\* put and remote_stat.st_size equals local_size
Transferred(outcome) == outcome = "ok"

\* str(e) of the exception a pass of the loop catches
AttemptError(outcome) ==
    IF outcome = "size_mismatch" THEN "size mismatch" ELSE "transfer error"

\* a delivery loop that moves on without counting the delivery
ReturnedUncounted(l) == [l EXCEPT !.di = @ + 1]

\* the local variables after a deliverer returned to the delivery loop
Returned(l) == [l EXCEPT !.di = @ + 1, !.delivery_count = @ + 1]

\* the session with its newest delivery log row replaced by lg
WithLog(s, lg) == [s EXCEPT !.logs = [@ EXCEPT ![Len(s.logs)] = lg]]

\* STEP 7, loop head: for delivery in deliveries
ER_Deliver(p) ==
    /\ pc[p] = "er_deliver"
    /\ IF loc[p].di > Len(loc[p].deliveries)
       THEN /\ pc' = [pc EXCEPT ![p] = "er_finalize"]
            /\ loc' = loc
       ELSE IF loc[p].deliveries[loc[p].di].method \in {"email", "sftp"}
       THEN /\ pc' = [pc EXCEPT ![p] = "dl_begin"]
            /\ loc' = loc
       ELSE \* unsupported delivery method: logged and skipped
            /\ pc' = pc
            /\ loc' = [loc EXCEPT ![p].di = @ + 1]
    /\ UNCHANGED call
    /\ UNCHANGED <<now, nextOffset, report_deliveries, executions, schedule, delivery_logs,
                   enabled, cons, sess, hist>>

\* deliver_via_email / deliver_via_sftp up to the retry loop: the pending log
\* row, the addressing, send_start
DL_Begin(p) ==
    /\ pc[p] = "dl_begin"
    /\ LET d  == loc[p].deliveries[loc[p].di]
           s1 == [sess[p] EXCEPT !.logs = Append(@, PendingLog(loc[p].execution_id, d))]
       IN  /\ sess' = [sess EXCEPT ![p] = s1]
           /\ IF InvalidDelivery(d)
              THEN \* the ValueError reaches the except branch, whose first
                   \* statement reads send_start before it is assigned
                   /\ loc' = [loc EXCEPT ![p] = Raise(@, "UnboundLocalError: send_start", "deliver")]
                   /\ pc' = [pc EXCEPT ![p] = "er_except"]
              ELSE IF MaxRetry(d) < 1
              THEN \* range(1, max_retry + 1) is empty: the function ends
                   \* without a return statement
                   /\ loc' = [loc EXCEPT ![p] = Returned([@ EXCEPT !.max_retry = MaxRetry(d),
                                                                   !.send_start_bound = TRUE,
                                                                   !.attempts_made = 0,
                                                                   !.last_outcome = None,
                                                                   !.mismatches = 0,
                                                                   !.waits = <<>>,
                                                                   !.spent = 0])]
                   /\ pc' = [pc EXCEPT ![p] = "er_deliver"]
              ELSE /\ loc' = [loc EXCEPT ![p].max_retry = MaxRetry(d), ![p].attempt = 1,
                                         ![p].elapsed = 0, ![p].attempts_made = 0,
                                         ![p].last_outcome = None, ![p].mismatches = 0,
                                         ![p].waits = <<>>, ![p].spent = 0,
                                         ![p].send_start_bound = TRUE]
                   /\ pc' = [pc EXCEPT ![p] = "dl_attempt"]
    /\ UNCHANGED call
    /\ UNCHANGED <<now, nextOffset, report_deliveries, executions, schedule, delivery_logs,
                   enabled, cons, hist>>

\* one pass of the retry loop of a deliverer
DL_Attempt(p) ==
    /\ pc[p] = "dl_attempt"
    /\ LET d  == loc[p].deliveries[loc[p].di]
           l  == loc[p]
           lg == sess[p].logs[Len(sess[p].logs)]
       IN  IF d.method = "sftp" /\ l.elapsed >= OVERALL_TIMEOUT
           THEN \* raise TimeoutError: caught by the except branch
                /\ sess' = [sess EXCEPT ![p] = WithLog(@, FailedLog(d, lg, l.max_retry, "timeout"))]
                /\ loc' = [loc EXCEPT ![p] = Returned(l)]
                /\ pc' = [pc EXCEPT ![p] = "er_deliver"]
           ELSE \E outcome \in AttemptOutcomes(d),
                   dur \in (IF d.method = "sftp" THEN AttemptDurations ELSE {0}) :
                  LET l1 == [l EXCEPT !.attempts_made = @ + 1,
                                      !.spent = @ + dur,
                                      !.last_outcome = outcome,
                                      !.mismatches = IF outcome = "size_mismatch"
                                                     THEN @ + 1 ELSE @]
                  IN  IF Transferred(outcome)
                      THEN /\ sess' = [sess EXCEPT ![p] = WithLog(@, SuccessLog(d, lg, l.attempt))]
                           /\ loc' = [loc EXCEPT ![p] = Returned(l1)]
                           /\ pc' = [pc EXCEPT ![p] = "er_deliver"]
                      ELSE IF l.attempt < l.max_retry
                      THEN /\ sess' = sess
                           /\ loc' = [loc EXCEPT ![p] =
                                  [l1 EXCEPT !.attempt = @ + 1,
                                             !.waits = Append(@, WaitSeconds(d, l.attempt)),
                                             !.spent = @ + WaitSeconds(d, l.attempt),
                                             !.elapsed = IF d.method = "sftp"
                                                         THEN @ + dur + WaitSeconds(d, l.attempt)
                                                         ELSE @]]
                           /\ pc' = pc
                      ELSE /\ sess' = [sess EXCEPT ![p] =
                                  WithLog(@, FailedLog(d, lg, l.max_retry,
                                                       AttemptError(outcome)))]
                           /\ loc' = [loc EXCEPT ![p] = Returned(l1)]
                           /\ pc' = [pc EXCEPT ![p] = "er_deliver"]
    /\ UNCHANGED call
    /\ UNCHANGED <<now, nextOffset, report_deliveries, executions, schedule, delivery_logs,
                   enabled, cons, hist>>

(***************************************************************************)
(* Orchestrator: completion, failure, session exit                         *)
(***************************************************************************)
\* the end of the window the execution queried
WindowEnd(l) == l.time_range.end

\* the value STEP 9 stores in schedule.last_run_at
LastRunAtValue(l) == l.execution_start

\* a STEP 9 that does not ask whether there is a schedule
ScheduleWriteAlways(l) == l.execution_start

\* STEP 9: if schedule: schedule.last_run_at = execution_start
ScheduleWrite(l) == IF l.has_schedule THEN LastRunAtValue(l) ELSE NoTime

\* STEP 8 and 9: status 'completed', schedule.last_run_at, db.commit()
ER_Finalize(p) ==
    /\ pc[p] = "er_finalize"
    /\ LET id == loc[p].execution_id
           s0 == [sess[p] EXCEPT !.execution.status = "completed",
                                 !.execution.completed_at = now,
                                 !.dirty = @ \cup {"status", "completed_at"},
                                 !.sched_write = ScheduleWrite(loc[p])]
       IN  \E o \in {"ok", "flush_fail", "commit_fail"} :
             IF o = "ok"
             THEN /\ CanCommit(p)
                  /\ DbCommit(s0, id)
                  /\ sess' = [sess EXCEPT ![p] = SessionCommitted(s0)]
                  /\ loc' = [loc EXCEPT ![p].result = "completed"]
                  /\ hist' = [HistCommitted(s0) EXCEPT
                                !.ok_scheduled = IF loc[p].has_schedule THEN @ + 1 ELSE @,
                                !.last_ok_start = IF loc[p].has_schedule
                                                  THEN loc[p].execution_start ELSE @,
                                !.last_ok_end = IF loc[p].has_schedule
                                                THEN loc[p].time_range["end"] ELSE @]
                  /\ pc' = [pc EXCEPT ![p] = "er_exit"]
             ELSE /\ DbUnchanged
                  /\ sess' = [sess EXCEPT ![p] =
                                IF o = "flush_fail" THEN [s0 EXCEPT !.broken = TRUE]
                                ELSE SessionRolledBack(s0, executions[id])]
                  /\ loc' = [loc EXCEPT ![p] = [Raise(@, "db error", "step8")
                                                  EXCEPT !.db_fault = TRUE]]
                  /\ hist' = hist
                  /\ pc' = [pc EXCEPT ![p] = "er_except"]
    /\ UNCHANGED call
    /\ UNCHANGED <<now, nextOffset, report_deliveries, enabled, cons>>

\* the columns the except clause writes
FailedMarks == {"status", "completed_at", "error_message"}

\* except Exception as e: mark the execution failed if it is bound, commit,
\* swallow any error of that, raise the wrapped exception
ER_Except(p) ==
    /\ pc[p] = "er_except"
    /\ LET id == loc[p].execution_id
           s0 == IF loc[p].has_execution
                 THEN [sess[p] EXCEPT !.execution.status = "failed",
                                      !.execution.completed_at = now,
                                      !.execution.error_message = loc[p].error,
                                      !.dirty = @ \cup FailedMarks]
                 ELSE sess[p]
       IN  \E ok \in BOOLEAN :
             IF ok
             THEN /\ loc[p].has_execution
                  /\ CanCommit(p)
                  /\ DbCommit(s0, id)
                  /\ sess' = [sess EXCEPT ![p] = SessionCommitted(s0)]
                  /\ hist' = HistCommitted(s0)
                  /\ loc' = [loc EXCEPT ![p].result = "raised"]
             ELSE \* nothing to commit, or the commit raised: swallowed
                  /\ DbUnchanged
                  /\ sess' = [sess EXCEPT ![p] = s0]
                  /\ hist' = hist
                  /\ loc' = [loc EXCEPT ![p].result = "raised",
                                         ![p].db_fault = @ \/ loc[p].has_execution]
    /\ pc' = [pc EXCEPT ![p] = "er_exit"]
    /\ UNCHANGED call
    /\ UNCHANGED <<now, nextOffset, report_deliveries, enabled, cons>>

\* get_db_session after the block: commit on return (nothing is pending),
\* rollback on exception (what is pending is discarded), close; the handler
\* passes the result or the exception on to the consume loop
ER_Exit(p) ==
    /\ pc[p] = "er_exit"
    /\ sess' = [sess EXCEPT ![p] = InitSess]
    /\ pc' = [pc EXCEPT ![p] = "commit"]
    /\ UNCHANGED call
    /\ UNCHANGED <<now, nextOffset, report_deliveries, executions, schedule, delivery_logs,
                   enabled, cons, loc, hist>>

(***************************************************************************)
(* Specifications                                                          *)
(***************************************************************************)
Step(p) ==
    \/ Consume_Receive(p)
    \/ ProcessExecutionRequest(p)
    \/ ER_Begin(p)
    \/ ER_LoadConfig(p)
    \/ ER_TimeRange(p)
    \/ ER_BuildQuery(p)
    \/ ER_RunQuery(p)
    \/ ER_Render(p)
    \/ ER_Deliver(p)
    \/ DL_Begin(p)
    \/ DL_Attempt(p)
    \/ ER_Finalize(p)
    \/ ER_Except(p)
    \/ ER_Exit(p)
    \/ Consume_Commit(p)

Next ==
    \/ Tick
    \/ \E p \in Procs : Step(p)
    \/ \E p \in Procs : Consume_Stop(p)

\* one worker
Spec == Init /\ [][Next]_vars

\* two workers of one consumer group
SpecConc == InitConc /\ [][Next]_vars

\* one worker, one message, every delivery configuration
SpecDelivery == InitDelivery /\ [][Next]_vars

\* any schedule or none, any execution instant
InitTimeRange ==
    /\ InitIdle
    /\ call \in [fn : {"calculate_time_range"}, has : BOOLEAN,
                  sched : [last_run_at : LastRuns, cron_period : CronPeriods],
                  t : Instants, result : {NoRange}, done : {FALSE}]

NextTimeRange == TR_Call

SpecTimeRange == InitTimeRange /\ [][NextTimeRange]_vars

\* any base query, any list of configured filters
InitQuery ==
    /\ InitIdle
    /\ call \in [fn : {"apply_filters_to_query"}, base_query : Queries(MaxPieces),
                  filters : SeqsUpTo(Filters, MaxFilters), result : {<<>>},
                  done : {FALSE}]

NextQuery == QB_Call

SpecQuery == InitQuery /\ [][NextQuery]_vars

\* the pieces report templates are made of
TemplatePieces ==
    { <<"S", "E", "L", "E", "C", "T", " ", "i", "d", " ", "F", "R", "O", "M", " ", "t">>, <<" ", "O", "R", "D", "E", "R", " ", "B", "Y", " ", "i", "d">>, <<" ", "l", "i", "m", "i", "t", " ", "5">>, <<" ", "W", "H", "E", "R", "E", " ", "d", " ", "<", " ", "'", "{", "{", "e", "n", "d", "_", "d", "a", "t", "e", "}", "}", "'">> }

\* the report templates: at most n pieces, one after the other
Templates(n) == {Concat(ps) : ps \in SeqsUpTo(TemplatePieces, n)}

\* parameters.date_field: absent, or the name of a column
DateFields == { <<>>, <<"c", "r", "e", "a", "t", "e", "d", "_", "a", "t">>, <<"l", "i", "m", "i", "t", "_", "d", "a", "t", "e">> }

\* the static filters of a report configuration
StaticFilters ==
    { Filter("string", <<"s", "t", "a", "t", "u", "s">>, <<"=">>, StrValue(<<"p", "a", "i", "d">>)),
      Filter("number", <<"t", ".", "a", "m", "o", "u", "n", "t">>, <<">", "=">>, IntValue(<<"1", "0", "0">>)),
      Filter("string", <<"c", "r", "e", "a", "t", "e", "d", "_", "a", "t">>, <<">", "=">>, StrValue(<<"{", "{", "y", "e", "s", "t", "e", "r", "d", "a", "y", "}", "}">>)) }

\* schedule.cron_expression with the period, in ticks, it fires at: none,
\* every day at 02:00, at 02:00 and 14:00, every Wednesday at 02:00, and a
\* text croniter rejects
CronExpressions ==
    { [text |-> <<>>, period |-> 0],
      [text |-> <<"0", " ", "2", " ", "*", " ", "*", " ", "*">>, period |-> DAY],
      [text |-> <<"0", " ", "2", ",", "1", "4", " ", "*", " ", "*", " ", "*">>, period |-> 1],
      [text |-> <<"0", " ", "2", " ", "*", " ", "*", " ", "3">>, period |-> 7 * DAY],
      [text |-> <<"d", "a", "i", "l", "y">>, period |-> -1] }

\* any template, date field, static filters, schedule and execution instant
InitBuildQuery ==
    /\ InitIdle
    /\ call \in [fn : {"build_query"}, report_query : Templates(MaxPieces),
                  date_field : DateFields, filters : SeqsUpTo(StaticFilters, MaxFilters),
                  has : BOOLEAN, last_run_at : {NoTime, StartTime - 1},
                  cron : CronExpressions, t : {StartTime, StartTime + MaxTicks},
                  result : {<<>>}, done : {FALSE}]
    /\ ~call.has => call.last_run_at = NoTime /\ call.cron.period = 0

NextBuildQuery == BQ_Call

SpecBuildQuery == InitBuildQuery /\ [][NextBuildQuery]_vars

\* the pieces texts with placeholders are made of
TextPieces == { <<"S", "E", "L", "E", "C", "T", " ">>, <<"{", "{", "y", "e", "s", "t", "e", "r", "d", "a", "y", "}", "}">>, <<"{", "{", "p", "e", "r", "i", "o", "d", "}", "}">>, <<"{", "{">>, <<"}", "}">> }

\* the texts: at most n pieces, one after the other
Texts(n) == {Concat(ps) : ps \in SeqsUpTo(TextPieces, n)}

\* the names of template variables: one of the time range, one of a filter
VariableNames == { <<"y", "e", "s", "t", "e", "r", "d", "a", "y">>, <<"p", "e", "r", "i", "o", "d">> }

\* their values: a date, a configured filter value, a filter value that is
\* itself written with a placeholder
VariableValues == { <<"2", "0", "2", "5", "-", "1", "0", "-", "0", "2">>, <<"p", "a", "i", "d">>, <<"{", "{", "y", "e", "s", "t", "e", "r", "d", "a", "y", "}", "}">> }

\* the dicts over these names, in every order of their keys
Mappings ==
    {m \in SeqsUpTo([key : VariableNames, value : VariableValues], Cardinality(VariableNames)) :
         \A i, j \in 1..Len(m) : i # j => m[i].key # m[j].key}

\* any text, any mapping
InitTemplate ==
    /\ InitIdle
    /\ call \in [fn : {"replace_template_variables"}, query : Texts(MaxPieces),
                  time_range : Mappings, first : {<<>>}, second : {<<>>}, passes : {0}]

NextTemplate == RT_Call \/ RT_Again

SpecTemplate == InitTemplate /\ [][NextTemplate]_vars

\* build_auto_date_filter called on its own with the expression of a
\* schedule, or without one, and the time range of a window
DF_Call ==
    /\ call.fn = "build_auto_date_filter"
    /\ ~call.done
    /\ call' = [call EXCEPT
                   !.result = build_auto_date_filter(
                                  call.date_field, TimeRangeDict(call.range),
                                  IF call.has_cron
                                  THEN join(<<" ">>, <<call.minute, call.hour, call.day,
                                                     call.month, call.weekday>>)
                                  ELSE <<>>),
                   !.done = TRUE]
    /\ UNCHANGED <<now, nextOffset, report_deliveries, executions, schedule, delivery_logs,
                   enabled, pc, cons, loc, sess, hist>>

\* the fields of the five-field cron expressions of a schedule
MinuteFields == {<<"*">>, <<"0">>, <<"3", "0">>, <<"*", "/", "5">>}
HourFields == {<<"*">>, <<"2">>, <<"*", "/", "6">>}
DayFields == {<<"*">>, <<"1">>, <<"1", "5">>}
MonthFields == {<<"*">>, <<"6">>}
WeekdayFields == {<<"*">>, <<"1">>}

\* any five-field expression of these fields or no expression, a date field,
\* the window before an execution instant
InitDateFilter ==
    /\ InitIdle
    /\ call \in [fn : {"build_auto_date_filter"}, date_field : {<<"c", "r", "e", "a", "t", "e", "d", "_", "a", "t">>},
                  has_cron : BOOLEAN, minute : MinuteFields, hour : HourFields,
                  day : DayFields, month : MonthFields, weekday : WeekdayFields,
                  range : {DefaultWindow(StartTime), DefaultWindow(StartTime + MaxTicks)},
                  result : {<<>>}, done : {FALSE}]
    /\ ~call.has_cron => /\ call.minute = <<"*">> /\ call.hour = <<"*">> /\ call.day = <<"*">>
                         /\ call.month = <<"*">> /\ call.weekday = <<"*">>

NextDateFilter == DF_Call

SpecDateFilter == InitDateFilter /\ [][NextDateFilter]_vars

\* MySQL's expr BETWEEN min AND max: min <= expr AND expr <= max
SqlBetween(expr, min, max) == min <= expr /\ expr <= max

\* the instants a window edge of the consecutive executions can be
WindowInstants == 0 .. (StartTime + MaxTicks + DAY)

\* whether the datasource selects a row whose date field holds instant ts
\* under a datetime BETWEEN condition written by build_auto_date_filter
Selects(condition, date_field, ts) ==
    \E lo, hi \in WindowInstants :
        /\ condition = date_field \o <<" ", "B", "E", "T", "W", "E", "E", "N", " ", "'">> \o DateTimeText(lo) \o <<"'", " ", "A", "N", "D", " ", "'">>
                           \o DateTimeText(hi) \o <<"'">>
        /\ SqlBetween(ts, lo, hi)

\* the window of execution number n of consecutive executions at the
\* instants of edges: from the execution before (schedule.last_run_at) to it
EdgeWindow(edges, n) ==
    [start |-> edges[n], end |-> edges[n + 1], method |-> "last_run_at"]

\* the next of the consecutive executions of a schedule builds its date
\* condition and the datasource tells whether the row is selected by it
DW_Run ==
    /\ call.fn = "consecutive_date_filters"
    /\ Len(call.conditions) < Len(call.edges) - 1
    /\ LET n == Len(call.conditions) + 1
           condition == build_auto_date_filter(call.date_field,
                                               TimeRangeDict(EdgeWindow(call.edges, n)),
                                               call.cron)
       IN  call' = [call EXCEPT !.conditions = Append(@, condition),
                                !.selected = Append(@, Selects(condition, call.date_field,
                                                               call.row))]
    /\ UNCHANGED <<now, nextOffset, report_deliveries, executions, schedule, delivery_logs,
                   enabled, pc, cons, loc, sess, hist>>

\* hourly and sub-hourly expressions
HourlyExpressions == {<<"0", " ", "*", " ", "*", " ", "*", " ", "*">>, <<"3", "0", " ", "*", " ", "*", " ", "*", " ", "*">>, <<"*", "/", "5", " ", "*", " ", "*", " ", "*", " ", "*">>, <<"*", "/", "1", "5", " ", "8", " ", "*", " ", "*", " ", "*">>}

\* the instants of three consecutive executions (the first is the
\* last_run_at the second starts from) and a row of the table
InitWindows ==
    /\ InitIdle
    /\ call \in [fn : {"consecutive_date_filters"}, date_field : {<<"c", "r", "e", "a", "t", "e", "d", "_", "a", "t">>},
                  cron : HourlyExpressions,
                  edges : {e \in [1..3 -> 0..(StartTime + MaxTicks)] : e[1] < e[2] /\ e[2] < e[3]},
                  row : 0..(StartTime + MaxTicks),
                  conditions : {<<>>}, selected : {<<>>}]

NextWindows == DW_Run

SpecWindows == InitWindows /\ [][NextWindows]_vars

\* the conditions of one configured filter, built on their own
CD_Call ==
    /\ call.fn = "where_conditions"
    /\ ~call.done
    /\ call' = [call EXCEPT !.result = where_conditions(<<call.filter_def>>, <<>>),
                            !.done = TRUE]
    /\ UNCHANGED <<now, nextOffset, report_deliveries, executions, schedule, delivery_logs,
                   enabled, pc, cons, loc, sess, hist>>

\* the types, fields, operators and values of a configured filter
FilterTypes == {"string", "number"}
FilterFields == {<<"s", "t", "a", "t", "u", "s">>, <<"a", "m", "o", "u", "n", "t">>, <<"t", ".", "r", "e", "g", "i", "o", "n">>}
FilterOperators ==
    {<<"=">>, <<"!", "=">>, <<">">>, <<">", "=">>, <<"<">>, <<"<", "=">>, <<"L", "I", "K", "E">>, <<"I", "N">>, <<"<", ">">>, <<"l", "i", "k", "e">>, <<"N", "O", "T", " ", "I", "N">>}
FilterValues ==
    {StrValue(<<"p", "a", "i", "d">>), StrValue(<<"O", "'", "N", "e", "i", "l">>), IntValue(<<"1", "0", "0">>), IntValue(<<"-", "5">>),
     ListValue(<<<<"i", "d">>, <<"s", "g">>>>), ListValue(<<<<"7">>>>), NoValue}

\* any one filter of these
InitCondition ==
    /\ InitIdle
    /\ call \in [fn : {"where_conditions"},
                  filter_def : {Filter(type, field, operator, value) :
                                   type \in FilterTypes, field \in FilterFields,
                                   operator \in FilterOperators, value \in FilterValues},
                  result : {<<>>}, done : {FALSE}]

NextCondition == CD_Call

SpecCondition == InitCondition /\ [][NextCondition]_vars

(***************************************************************************)
(* Worker process (worker.py, main) around the consumer                    *)
(***************************************************************************)
\* main: max_retries = 5, retry_delay = 5, min(retry_delay * 2, 60)
max_retries == 5
initial_retry_delay == 5
max_retry_delay == 60

\* KAFKA_SECURITY_PROTOCOL: the two protocols the consumer knows, and another
SecurityProtocols == {"SASL_SSL", "PLAINTEXT", "SSL"}

\* no exit code: the process runs
NoExit == -1

\* retry_delay = min(retry_delay * 2, 60)
NextDelay(retry_delay) ==
    IF retry_delay * 2 < max_retry_delay THEN retry_delay * 2 ELSE max_retry_delay

\* whether an exception leaves consume: the loop's KeyboardInterrupt and
\* Exception are both caught and logged, so only the close() of the finally
\* clause can raise
ConsumeLeavesByException(ended_by, close) == close = "raises"

\* consumer = ReportKafkaConsumer(): the constructor returns, raises
\* KafkaError (re-raised) or ValueError (unsupported protocol), or the user
\* interrupts
WM_Construct ==
    /\ call.fn = "main"
    /\ call.at = "construct"
    /\ call.retry_count < max_retries
    /\ \E o \in (IF call.security_protocol \in {"SASL_SSL", "PLAINTEXT"}
                 THEN {"ok", "KafkaError", "KeyboardInterrupt"}
                 ELSE {"ValueError"}) :
          call' = IF o = "ok"
                  THEN [call EXCEPT !.at = "consume", !.message_count = 0]
                  ELSE IF o = "KeyboardInterrupt"
                  THEN [call EXCEPT !.at = "exited", !.exit_code = 0,
                                    !.ended_by = "KeyboardInterrupt"]
                  ELSE [call EXCEPT !.at = "crashed",
                                    !.failures = Append(@, "construct")]
    /\ UNCHANGED <<now, nextOffset, report_deliveries, executions, schedule, delivery_logs,
                   enabled, pc, cons, loc, sess, hist>>

\* consume: one message of the iteration, handled and its offset committed
WM_Message ==
    /\ call.fn = "main"
    /\ call.at = "consume"
    /\ call.message_count < MaxMsgs
    /\ call' = [call EXCEPT !.message_count = @ + 1]
    /\ UNCHANGED <<now, nextOffset, report_deliveries, executions, schedule, delivery_logs,
                   enabled, pc, cons, loc, sess, hist>>

\* consume: the iteration ends by KeyboardInterrupt or by an error of the
\* consumer (connection lost); both are caught inside consume, the finally
\* clause closes the consumer; main breaks out of its loop when consume
\* returns
WM_ConsumeEnd ==
    /\ call.fn = "main"
    /\ call.at = "consume"
    /\ \E ended_by \in {"KeyboardInterrupt", "consumer_error"}, close \in {"ok", "raises"} :
          call' = IF ConsumeLeavesByException(ended_by, close)
                  THEN [call EXCEPT !.at = "crashed", !.ended_by = ended_by,
                                    !.failures = Append(@, "consume")]
                  ELSE [call EXCEPT !.at = "exited", !.exit_code = 0,
                                    !.ended_by = ended_by]
    /\ UNCHANGED <<now, nextOffset, report_deliveries, executions, schedule, delivery_logs,
                   enabled, pc, cons, loc, sess, hist>>

\* main: except Exception: retry_count += 1, sleep and a longer delay, or
\* sys.exit(1)
WM_Crashed ==
    /\ call.fn = "main"
    /\ call.at = "crashed"
    /\ call' = IF call.retry_count + 1 < max_retries
               THEN [call EXCEPT !.retry_count = @ + 1,
                                 !.slept = Append(@, call.retry_delay),
                                 !.retry_delay = NextDelay(@),
                                 !.at = "construct"]
               ELSE [call EXCEPT !.retry_count = @ + 1, !.at = "exited", !.exit_code = 1]
    /\ UNCHANGED <<now, nextOffset, report_deliveries, executions, schedule, delivery_logs,
                   enabled, pc, cons, loc, sess, hist>>

\* the worker process from its start
InitMain ==
    /\ InitIdle
    /\ call \in [fn : {"main"}, security_protocol : SecurityProtocols,
                  at : {"construct"}, retry_count : {0}, retry_delay : {initial_retry_delay},
                  slept : {<<>>}, failures : {<<>>}, message_count : {0},
                  ended_by : {None}, exit_code : {NoExit}]

NextMain == WM_Construct \/ WM_Message \/ WM_ConsumeEnd \/ WM_Crashed

SpecMain == InitMain /\ [][NextMain]_vars

\* the worker process is killed (SIGKILL, power loss): its database
\* connection is gone and the server rolls back the transaction that was
\* open on it; what was committed stays
Kill(p) ==
    /\ p \in enabled
    /\ pc[p] \notin {"closed", "killed"}
    /\ pc' = [pc EXCEPT ![p] = "killed"]
    /\ loc' = [loc EXCEPT ![p].killed_at = pc[p]]
    /\ sess' = [sess EXCEPT ![p] = InitSess]
    /\ UNCHANGED call
    /\ UNCHANGED <<now, nextOffset, report_deliveries, executions, schedule, delivery_logs,
                   enabled, cons, hist>>

\* one worker process that may be killed at any point, one message to come
InitKill ==
    /\ InitCommon
    /\ enabled = {"w1"}
    /\ nextOffset = MaxMsgs
    /\ report_deliveries \in FewDeliveryLists

NextKill ==
    \/ Next
    \/ \E p \in Procs : Kill(p)

SpecKill == InitKill /\ [][NextKill]_vars

\* the steps of the workers alone
NextLoop ==
    \/ \E p \in Procs : Step(p)
    \/ \E p \in Procs : Consume_Stop(p)

\* one worker that keeps running while it can: a worker process is never
\* suspended for ever, a connection loss may or may not happen
FairSpec == InitLoop /\ [][NextLoop]_vars /\ \A p \in Procs : WF_vars(Step(p))

(***************************************************************************)
(* Properties                                                              *)
(***************************************************************************)
Terminal == {"completed", "failed"}

\* the positions of a worker inside execute_report, STEP 2 to the commit
Executing == {"er_load", "er_timerange", "er_build", "er_query", "er_render",
              "er_deliver", "dl_begin", "dl_attempt", "er_finalize"}

\* C1: once an execution record is completed or failed, no later step changes
\* its status: a terminal record never returns to running, queued or pending
\* and never becomes the other terminal status.
C1_TerminalStatusIsFinal ==
    [][\A e \in ExecIds :
         executions[e].status \in Terminal
            => executions'[e].status = executions[e].status]_vars

\* C2: an execution that has rendered its report (no database fault on the
\* way) ends completed whatever its deliveries did: no delivery outcome makes
\* execute_report raise or marks the record failed.
C2_DeliveryNeverFailsExecution ==
    \A p \in Procs :
        (pc[p] = "er_exit" /\ loc[p].rendered /\ ~loc[p].db_fault)
            => /\ loc[p].result = "completed"
               /\ executions[loc[p].execution_id].status = "completed"

\* C3: a deliverer never raises to the orchestrator, whatever goes wrong
\* (no active recipient, a missing SFTP field, a transport error, a timeout),
\* and each call it was given has created exactly one delivery log row for
\* its (execution, delivery) pair.
C3_DelivererNeverRaises ==
    \A p \in Procs :
        /\ loc[p].err_step # "deliver"
        /\ pc[p] \in {"er_deliver", "er_finalize"}
              => /\ Len(sess[p].logs) = loc[p].delivery_count
                 /\ \A i, j \in 1..Len(sess[p].logs) :
                       sess[p].logs[i].delivery_id = sess[p].logs[j].delivery_id => i = j

\* C4: execute_report invoked with an execution id whose record it finds
\* completed does nothing: it changes no column of the record, runs no query,
\* calls no delivery channel and adds no delivery log row.
C4_ReinvokeCompletedIsNoOp ==
    \A p \in Procs :
        loc[p].loaded_status = "completed"
            => /\ ~loc[p].queried
               /\ sess[p].logs = <<>>
               /\ executions[loc[p].execution_id].status = "completed"

\* C5: a handler that finds the record of its message completed returns a
\* skipped result without entering execute_report, the execution records and
\* the delivery log rows stay as they are, and the consume loop then commits
\* the offset of that message.
C5_CompletedIsSkippedAndAcked ==
    [][\A p \in Procs :
         /\ (/\ pc[p] = "handler"
             /\ executions[loc[p].execution_id].status = "completed"
             /\ pc'[p] # "handler")
               => /\ pc'[p] = "commit"
                  /\ loc'[p].result = "skipped"
                  /\ sess'[p] = sess[p]
                  /\ executions' = executions
                  /\ delivery_logs' = delivery_logs
         /\ (pc[p] = "commit" /\ loc[p].result = "skipped" /\ pc'[p] # "commit")
               => /\ pc'[p] = "poll"
                  /\ cons'[p].commit_attempts >= 1
                  /\ cons'[p].outcome = "skipped"
                  /\ executions' = executions
                  /\ delivery_logs' = delivery_logs]_vars

\* a skipped message whose offset was committed
C5_Witness ==
    \E p \in Procs :
        pc[p] = "poll" /\ cons[p].outcome = "skipped" /\ cons[p].acked

\* C6: every received message gets an offset commit attempt after its handler
\* returned or raised and before the next message is taken; the loop leaves
\* only from the poll (never because a handler raised), a handler that raised
\* is followed by the next poll, and every message of the topic is eventually
\* handed to a handler unless the consumer itself was closed.
C6_CommitAfterEveryHandler ==
    /\ [](\A p \in Procs :
            (pc[p] = "poll" /\ cons[p].received > 0) => cons[p].commit_attempts >= 1)
    /\ [][\A p \in Procs :
            /\ (pc[p] = "commit" /\ pc'[p] # "commit")
                  => (pc'[p] = "poll" /\ cons'[p].commit_attempts >= 1)
            /\ (pc'[p] = "closed" /\ pc[p] # "closed") => pc[p] = "poll"]_vars
    /\ \A p \in Procs :
          (pc[p] = "commit" /\ loc[p].result = "raised") ~> (pc[p] = "poll")
    /\ \A i \in 1..MaxMsgs :
          <>(nextOffset > i \/ \A p \in enabled : pc[p] = "closed")

\* after a handler that raised: the commit was attempted, the loop is at the
\* poll again and a later message is still to come
C6_Witness ==
    \E p \in Procs :
        /\ pc[p] = "poll"
        /\ cons[p].outcome = "raised"
        /\ cons[p].commit_attempts = 1
        /\ nextOffset <= MaxMsgs

\* C7: when one of the steps 1 to 6 of execute_report has failed, the record
\* of the execution is failed, its error_message is the text of the error,
\* its completed_at is set (and the caller got the wrapped exception).
C7_FailedStepMarksFailed ==
    \A p \in Procs :
        (/\ pc[p] = "er_exit"
         /\ loc[p].result = "raised"
         /\ loc[p].err_step \in {"step1", "step2", "step3", "step4", "step5", "step6"})
            => /\ executions[loc[p].execution_id].status = "failed"
               /\ executions[loc[p].execution_id].error_message = loc[p].error
               /\ executions[loc[p].execution_id].completed_at # NoTime

\* C8: whenever execute_report has returned or raised, the persisted record
\* of its execution id is completed or failed, whatever step failed, a
\* database flush or commit included.
C8_TerminalAfterExecuteReport ==
    \A p \in Procs :
        pc[p] = "er_exit" => executions[loc[p].execution_id].status \in Terminal

\* C9: after an execution with a schedule completed, schedule.last_run_at is
\* that execution's execution_start; a following execution of the schedule
\* computes a window that starts there, by method last_run_at.
C9_LastRunAtIsExecutionStart ==
    \A p \in Procs :
        /\ (/\ pc[p] \in {"er_exit", "commit"}
            /\ loc[p].result = "completed"
            /\ loc[p].has_schedule)
              => schedule.last_run_at = loc[p].execution_start
        /\ (/\ pc[p] \in Executing \ {"er_load", "er_timerange"}
            /\ loc[p].has_schedule
            /\ hist.last_ok_start # NoTime)
              => /\ loc[p].time_range.start = hist.last_ok_start
                 /\ loc[p].time_range.method = "last_run_at"

\* a second execution of the schedule whose window starts at the start
\* instant of the first
C9_Witness ==
    \E p \in Procs :
        /\ pc[p] = "er_build"
        /\ loc[p].has_schedule
        /\ hist.last_ok_start # NoTime
        /\ loc[p].time_range.method = "last_run_at"
        /\ loc[p].time_range.start = schedule.last_run_at
        /\ loc[p].time_range.start < loc[p].time_range["end"]

\* C10: the committed writes of schedule.last_run_at are as many as the
\* executions that completed with a schedule, and the column always holds
\* the start instant of the last of them: an execution that failed, at
\* whatever step, or that had no schedule, left it as it was.
C10_LastRunAtWrittenOncePerSuccess ==
    /\ hist.sched_writes = hist.ok_scheduled
    /\ schedule.last_run_at = hist.last_ok_start

\* an execution of the schedule that failed at a later instant than the
\* completed one before it
C10_Witness ==
    \E p \in Procs :
        /\ pc[p] = "er_exit"
        /\ loc[p].result = "raised"
        /\ loc[p].has_schedule
        /\ hist.ok_scheduled = 1
        /\ hist.sched_writes = 1
        /\ schedule.last_run_at # loc[p].execution_start

\* a finished call of calculate_time_range
TimeRangeDone == call.fn = "calculate_time_range" /\ call.done

\* x is an occurrence of the cron expression of period
Occurrence(period, x) == x % period = 0

\* x is the latest occurrence of the cron expression strictly before t
LatestBefore(period, x, t) ==
    /\ Occurrence(period, x)
    /\ x < t
    /\ \A y \in (x + 1) .. (t - 1) : ~Occurrence(period, y)

\* C11: for a schedule that has a last_run_at, with or without a cron
\* expression, and any execution instant, the window starts at last_run_at,
\* ends at the execution instant and is tagged last_run_at.
C11_LastRunAtWindow ==
    (TimeRangeDone /\ call.has /\ call.sched.last_run_at # NoTime)
        => /\ call.result.start = call.sched.last_run_at
           /\ call.result["end"] = call.t
           /\ call.result.method = "last_run_at"

\* a schedule with a last_run_at and a valid cron expression
C11_Witness ==
    /\ TimeRangeDone
    /\ call.has
    /\ call.sched.last_run_at # NoTime
    /\ call.sched.last_run_at < call.t
    /\ CronValid(call.sched.cron_period)
    /\ call.result.method = "last_run_at"

C13_DefaultWindow ==
    (/\ TimeRangeDone
     /\ \/ ~call.has
        \/ call.sched.last_run_at = NoTime /\ call.sched.cron_period = 0
        \/ call.sched.last_run_at = NoTime /\ ~CronValid(call.sched.cron_period))
        => /\ call.result.start = call.t - DAY
           /\ call.result["end"] = call.t
           /\ call.result.method = "default_daily"

\* a schedule whose cron expression does not parse
C13_Witness ==
    /\ TimeRangeDone
    /\ call.has
    /\ call.sched.last_run_at = NoTime
    /\ call.sched.cron_period = -1
    /\ call.result.method = "default_daily"


\* apply_filters_to_query was called on its own and has returned
QueryDone == call.fn = "apply_filters_to_query" /\ call.done

\* the date patterns a field name is searched for
NamedDatePatterns ==
    { <<"c", "r", "e", "a", "t", "e", "d", "_", "a", "t">>, <<"u", "p", "d", "a", "t", "e", "d", "_", "a", "t">>, <<"_", "d", "a", "t", "e">>, <<"d", "a", "t", "e", "_">>, <<"d", "a", "t", "e", "t", "i", "m", "e">>, <<"t", "i", "m", "e", "_">>,
      <<"D", "A", "T", "E", "(">>, <<"T", "I", "M", "E", "S", "T", "A", "M", "P", "(">> }

\* equality of two strings of one length up to the case of their letters
SameFolded(a, b) == \A i \in 1..Len(a) : LowerChar(a[i]) = LowerChar(b[i])

\* the field name holds the pattern somewhere, in whatever case
HoldsPattern(field, pattern) ==
    \E i \in 0..(Len(field) - Len(pattern)) :
        SameFolded(SubSeq(field, i + 1, i + Len(pattern)), pattern)

\* a filter of type date, or on a field whose name holds a date pattern
DateFilter(f) ==
    f.type = "date" \/ \E pattern \in NamedDatePatterns : HoldsPattern(f.field, pattern)

\* the filters of a list that are not date filters
WithoutDateFilters(filters) == SelectSeq(filters, LAMBDA f : ~DateFilter(f))

\* C14: a filter of type date, or on a field whose name holds one of the
\* date patterns in any case, adds no condition: the query returned is the
\* one returned for the list without these filters, and when every filter
\* of the list is skipped the query is returned as it was given.
C14_DateFiltersAddNothing ==
    QueryDone =>
        /\ call.result = apply_filters_to_query(call.base_query,
                                                WithoutDateFilters(call.filters), <<>>)
        /\ (\A i \in 1..Len(call.filters) :
                DateFilter(call.filters[i]) \/ call.filters[i].value.kind = "none")
           => call.result = call.base_query

\* a non-date filter and a string filter on created_at were applied: the
\* query has changed and is the one the first filter alone gives
C14_Witness ==
    /\ QueryDone
    /\ Len(call.filters) = 2
    /\ ~DateFilter(call.filters[1])
    /\ call.filters[2].type = "string" /\ call.filters[2].field = <<"c", "r", "e", "a", "t", "e", "d", "_", "a", "t">>
    /\ call.result # call.base_query
    /\ call.result = apply_filters_to_query(call.base_query, <<call.filters[1]>>, <<>>)


\* a keyword of the insertion list starts at position i of the query
\* (counted from 0), in whatever case
KeywordAt(base_query, i) ==
    \E n \in 1..Len(insertion_keywords) :
        /\ i + Len(insertion_keywords[n]) <= Len(base_query)
        /\ SameFolded(SubSeq(base_query, i + 1, i + Len(insertion_keywords[n])),
                      insertion_keywords[n])

\* the earliest position where a keyword starts, the end of the query when
\* no keyword occurs
EarliestKeyword(base_query) ==
    IF \E i \in 0..Len(base_query) : KeywordAt(base_query, i)
    THEN CHOOSE i \in 0..Len(base_query) :
             KeywordAt(base_query, i) /\ \A j \in 0..(i - 1) : ~KeywordAt(base_query, j)
    ELSE Len(base_query)

\* C15: when at least one filter survives, the conditions stand immediately
\* before the earliest occurrence, in any case, of ORDER BY, LIMIT, GROUP BY
\* or HAVING, and the text from that keyword on follows the inserted clause
\* as it was; without such a keyword the conditions stand at the end.
C15_InsertedBeforeEarliestKeyword ==
    QueryDone /\ where_conditions(call.filters, <<>>) # <<>> =>
        LET k == EarliestKeyword(call.base_query)
            conditions == join(<<" ", "A", "N", "D", " ">>, where_conditions(call.filters, <<>>))
        IN  \E opening \in { <<"W", "H", "E", "R", "E", " ">>, <<"A", "N", "D", " ">> } :
                call.result = rstrip(SubSeq(call.base_query, 1, k)) \o <<"\n">>
                              \o opening \o conditions \o <<"\n">>
                              \o SubSeq(call.base_query, k + 1, Len(call.base_query))


\* the query building steps were called on their own and have returned
BuildDone == call.fn = "build_query" /\ call.done

\* the number of places where a word stands in a text, in whatever case
CountFolded(s, word) ==
    Cardinality({i \in 0..(Len(s) - Len(word)) :
                     SameFolded(SubSeq(s, i + 1, i + Len(word)), word)})

\* the template variables of the call: the time range of the execution
\* instant with the filter values merged into it
BuiltTimeRange ==
    WithFilterVariables(
        TimeRangeDict(calculate_time_range(call.has,
                          [last_run_at |-> call.last_run_at, cron_period |-> call.cron.period],
                          call.t)),
        call.filters)

\* the auto date condition of the call
DateCondition ==
    build_auto_date_filter(call.date_field, BuiltTimeRange,
                           IF call.has THEN call.cron.text ELSE <<>>)

\* the conditions of the static filters that survive
StaticConditions == where_conditions(call.filters, BuiltTimeRange)

\* a template without WHERE, a date field and a surviving static filter
C16_Case ==
    /\ BuildDone
    /\ CountFolded(call.report_query, <<"W", "H", "E", "R", "E">>) = 0
    /\ call.date_field # <<>>
    /\ StaticConditions # <<>>

\* C16: for a template without WHERE, a configured date field and at least
\* one surviving static filter, the final query holds the auto date
\* condition and every static condition, holds WHERE exactly once, has
\* every static condition attached with AND, and has the date condition in
\* front of the static conditions; a daily schedule `0 2 * * *` that never
\* ran gives method cron_detection and DATE(created_at) = '<yesterday>'
\* followed by AND status = 'paid'.
C16_DateConditionThenStaticConditions ==
    C16_Case =>
        /\ contains(call.result, DateCondition)
        /\ CountFolded(call.result, <<"W", "H", "E", "R", "E">>) = 1
        /\ \A i \in 1..Len(StaticConditions) :
               /\ contains(call.result, <<"A", "N", "D", " ">> \o StaticConditions[i])
               /\ find(call.result, DateCondition) < find(call.result, StaticConditions[i])
        /\ ( /\ call.has /\ call.cron.text = <<"0", " ", "2", " ", "*", " ", "*", " ", "*">> /\ call.last_run_at = NoTime
             /\ call.date_field = <<"c", "r", "e", "a", "t", "e", "d", "_", "a", "t">>
             /\ call.filters = <<Filter("string", <<"s", "t", "a", "t", "u", "s">>, <<"=">>, StrValue(<<"p", "a", "i", "d">>))>> )
           => /\ Get(BuiltTimeRange, <<"c", "a", "l", "c", "u", "l", "a", "t", "i", "o", "n", "_", "m", "e", "t", "h", "o", "d">>) = <<"c", "r", "o", "n", "_", "d", "e", "t", "e", "c", "t", "i", "o", "n">>
              /\ contains(call.result,
                          <<"W", "H", "E", "R", "E", " ", "D", "A", "T", "E", "(", "c", "r", "e", "a", "t", "e", "d", "_", "a", "t", ")", " ", "=", " ", "'">>
                          \o DateText(CronPrev(DAY, call.t) - DAY)
                          \o <<"'", "\n", "A", "N", "D", " ", "s", "t", "a", "t", "u", "s", " ", "=", " ", "'", "p", "a", "i", "d", "'">>)


\* replace_template_variables was called on its own, n times at least
TemplatePasses(n) == call.fn = "replace_template_variables" /\ call.passes >= n

\* C17: after one pass no placeholder of a key of the mapping is left in
\* the text, and a second pass with the same mapping returns the text of
\* the first pass, whatever the values of the mapping are.
C17_OnePassResolvesAndSecondPassKeeps ==
    /\ TemplatePasses(1) =>
           \A i \in 1..Len(call.time_range) :
               ~contains(call.first, Placeholder(call.time_range[i].key))
    /\ TemplatePasses(2) => call.second = call.first

(***************************************************************************)
(* Delivery attempts and their log rows                                    *)
(***************************************************************************)
\* worker p is back in the delivery loop from the deliverer of a delivery
\* whose channel is method, and the last log row of its session is that
\* delivery's
DelivererReturned(p, method) ==
    /\ pc[p] = "er_deliver"
    /\ loc[p].di > 1
    /\ loc[p].deliveries[loc[p].di - 1].method = method
    /\ loc[p].attempts_made >= 1
    /\ Len(sess[p].logs) >= 1
    /\ sess[p].logs[Len(sess[p].logs)].delivery_id = loc[p].deliveries[loc[p].di - 1].id

\* the delivery the deliverer of worker p was called for
DeliveredRow(p) == loc[p].deliveries[loc[p].di - 1]

\* the log row that deliverer wrote
DeliveredLog(p) == sess[p].logs[Len(sess[p].logs)]

\* C18: a mail delivery to n recipients whose first k-1 attempts threw and
\* whose attempt k (k <= max_retry) went through has a log row with status
\* success, retry_count k-1, success_count n, failure_count 0 and
\* recipient_count n.
C18_MailSuccessAfterRetries ==
    \A p \in Procs :
        (DelivererReturned(p, "email") /\ loc[p].last_outcome = "ok")
            => /\ loc[p].attempts_made <= loc[p].max_retry
               /\ DeliveredLog(p).status = "success"
               /\ DeliveredLog(p).retry_count = loc[p].attempts_made - 1
               /\ DeliveredLog(p).success_count = DeliveredRow(p).recipients
               /\ DeliveredLog(p).failure_count = 0
               /\ DeliveredLog(p).recipient_count = DeliveredRow(p).recipients
               /\ DeliveredLog(p).error_message = None

\* two recipients, max_retry 3, the third attempt went through
C18_Witness ==
    \E p \in Procs :
        /\ DelivererReturned(p, "email")
        /\ loc[p].last_outcome = "ok"
        /\ DeliveredRow(p).recipients = 2
        /\ loc[p].max_retry = 3
        /\ loc[p].attempts_made = 3
        /\ DeliveredLog(p).status = "success"
        /\ DeliveredLog(p).retry_count = 2
        /\ DeliveredLog(p).success_count = 2

\* C19: for the mail channel and the file-transfer channel, a delivery whose
\* transfer failed on every attempt up to its retry budget has a log row with
\* status failed, the last error as error_message and retry_count equal to
\* max_retry - 1.
C19_FailedAfterBudgetCountsRetries ==
    \A p \in Procs : \A method \in {"email", "sftp"} :
        (/\ DelivererReturned(p, method)
         /\ loc[p].attempts_made = loc[p].max_retry
         /\ loc[p].last_outcome # "ok")
            => /\ DeliveredLog(p).status = "failed"
               /\ DeliveredLog(p).error_message = AttemptError(loc[p].last_outcome)
               /\ DeliveredLog(p).retry_count = loc[p].max_retry - 1

\* every delivery of the config can be addressed
AllDeliverable ==
    \A j \in 1..Len(report_deliveries) : ~InvalidDelivery(report_deliveries[j])

\* the delivery of the config a durable log row belongs to is a file transfer
SftpRow(row) ==
    \E j \in 1..Len(report_deliveries) :
        report_deliveries[j].id = row.delivery_id /\ report_deliveries[j].method = "sftp"

\* C20: in the file-transfer channel an attempt whose remote size differs
\* from the local size is never recorded as a success: a log row is success
\* only after an attempt whose sizes matched; when the sizes differed on every
\* attempt the row ends failed (with the mismatch as its error only once the
\* retry budget is used up) and the deliverer returns without raising, so the
\* owning execution, nothing else failing, is stored as completed.
C20_SizeMismatchIsNeverSuccess ==
    /\ \A p \in Procs :
          /\ (pc[p] \in {"dl_attempt", "er_deliver"} /\ loc[p].last_outcome = "size_mismatch"
                /\ Len(sess[p].logs) >= 1)
                 => sess[p].logs[Len(sess[p].logs)].status # "success"
          /\ (DelivererReturned(p, "sftp") /\ DeliveredLog(p).status = "success")
                 => /\ loc[p].last_outcome = "ok"
                    /\ loc[p].mismatches < loc[p].attempts_made
          /\ (DelivererReturned(p, "sftp") /\ loc[p].mismatches = loc[p].attempts_made)
                 => /\ DeliveredLog(p).status = "failed"
                    /\ loc[p].error = None
                    /\ DeliveredLog(p).error_message = "size mismatch"
                          => loc[p].attempts_made = loc[p].max_retry
    /\ AllDeliverable
          => \A i \in 1..Len(delivery_logs) :
                (SftpRow(delivery_logs[i]) /\ delivery_logs[i].status = "failed")
                    => executions[delivery_logs[i].execution_id].status = "completed"

\* the sizes differed on each attempt of the budget, the row is stored as
\* failed for that reason and its execution as completed
C20_Witness ==
    /\ \E i \in 1..Len(delivery_logs) :
          /\ SftpRow(delivery_logs[i])
          /\ delivery_logs[i].status = "failed"
          /\ delivery_logs[i].error_message = "size mismatch"
          /\ executions[delivery_logs[i].execution_id].status = "completed"
    /\ \E p \in Procs :
          /\ loc[p].mismatches = loc[p].max_retry
          /\ loc[p].attempts_made = loc[p].max_retry
          /\ loc[p].max_retry = DEFAULT_MAX_RETRY

\* worker p is back in the delivery loop from the channel of a mail or
\* file-transfer delivery, whatever that channel did
ChannelReturned(p) ==
    /\ pc[p] = "er_deliver"
    /\ loc[p].di > 1
    /\ loc[p].deliveries[loc[p].di - 1].method \in {"email", "sftp"}
    /\ Len(sess[p].logs) >= 1
    /\ sess[p].logs[Len(sess[p].logs)].delivery_id = loc[p].deliveries[loc[p].di - 1].id

\* the retry budget of a delivery as the contract words it: max_retry, 3 when
\* the column is unset or 0
StatedBudget(d) == IF d.max_retry = 0 THEN 3 ELSE d.max_retry

\* C21: for every delivery a channel makes at least 1 and at most max_retry
\* transfer attempts (3 when max_retry is unset or 0); no attempt follows the
\* first attempt that went through; the mail channel makes exactly max_retry
\* attempts when every attempt fails.
C21_AttemptsWithinBudget ==
    \A p \in Procs :
        /\ ChannelReturned(p)
              => /\ loc[p].attempts_made >= 1
                 /\ loc[p].attempts_made <= StatedBudget(DeliveredRow(p))
                 /\ (DeliveredRow(p).method = "email" /\ loc[p].last_outcome # "ok")
                        => loc[p].attempts_made = StatedBudget(DeliveredRow(p))
        /\ pc[p] = "dl_attempt" => loc[p].last_outcome # "ok"

\* the retry interval of a delivery as the contract words it: the column,
\* 5 (minutes) for mail and 2 (seconds) for file transfer when it is unset
StatedInterval(d) ==
    IF d.retry_interval # 0 THEN d.retry_interval
    ELSE IF d.method = "email" THEN 5 ELSE 2

\* the wait the contract states after failed attempt a
StatedWait(d, a) ==
    IF d.method = "email" THEN StatedInterval(d) * 60 * a ELSE StatedInterval(d) * a

\* the delivery worker p is in the retry loop of
LoopRow(p) == loc[p].deliveries[loc[p].di]

C23_TenSecondCeiling ==
    \A p \in Procs :
        DelivererReturned(p, "sftp")
            => /\ DeliveredLog(p).error_message # "timeout" => loc[p].elapsed < 10
               /\ DeliveredLog(p).error_message = "timeout"
                     => (DeliveredLog(p).status = "failed" /\ loc[p].elapsed >= 10)
               /\ loc[p].spent <= 10

\* a delivery of a kind that has a channel
HasChannel(d) == d.method \in {"email", "sftp"}

\* the ids of the deliveries with a channel among the first n of worker p's
\* execution, in order
ChannelIds(p, n) ==
    LET chosen == SelectSeq(SubSeq(loc[p].deliveries, 1, n), HasChannel)
    IN  [i \in 1..Len(chosen) |-> chosen[i].id]

\* the delivery ids of the log rows worker p's session holds, in order
LoggedIds(p) == [i \in 1..Len(sess[p].logs) |-> sess[p].logs[i].delivery_id]

\* C24: in one execution every active delivery of kind email or sftp is
\* handed to its channel exactly once, in order, whatever became of the
\* deliveries before it (a failing channel never ends the loop); a delivery
\* of another kind is passed over without a log row and without failing the
\* execution.
C24_EveryDeliveryDispatchedOnce ==
    \A p \in Procs :
        /\ pc[p] = "er_deliver" => LoggedIds(p) = ChannelIds(p, loc[p].di - 1)
        /\ pc[p] = "er_finalize" => LoggedIds(p) = ChannelIds(p, Len(loc[p].deliveries))
        /\ pc[p] = "er_except" => loc[p].err_step # "deliver"

(***************************************************************************)
(* The execution context and a killed worker                               *)
(***************************************************************************)
\* the positions of execute_report after the write of the execution context
\* (from the dispatch of the query on)
AfterContextWrite ==
    {"er_query", "er_render", "er_deliver", "dl_begin", "dl_attempt", "er_finalize"}

\* C25: the original query, the final query and the resolved window are
\* stored in the execution record's context before the query is dispatched:
\* if the process is killed at any point after that write, the durable
\* execution record other sessions see still holds the context.
C25_ContextSurvivesKill ==
    \A p \in Procs :
        (pc[p] = "killed" /\ loc[p].killed_at \in AfterContextWrite)
            => executions[loc[p].execution_id].execution_context = "context"

(***************************************************************************)
(* Restart of the consumer                                                 *)
(***************************************************************************)
\* the delay the contract states before restart number i: 5 seconds,
\* doubled after each failure, at most 60
RECURSIVE StatedDelay(_)
StatedDelay(i) ==
    IF i = 1 THEN 5
    ELSE IF 2 * StatedDelay(i - 1) > 60 THEN 60 ELSE 2 * StatedDelay(i - 1)

\* C26: when the consumer loses its connection (an error raised while the
\* consumer is constructed or while the messages are iterated), the worker
\* restarts the consumer after a delay that starts at 5 seconds, doubles
\* after each failure and is at most 60 seconds, and gives up with a failure
\* exit after 5 failed attempts.
C26_ConnectionLossRestartsConsumer ==
    (call.fn = "main")
        => /\ \A i \in 1..Len(call.slept) : call.slept[i] = StatedDelay(i)
           /\ call.retry_count <= 5
           /\ (call.at = "exited" /\ call.exit_code = 1) => call.retry_count = 5
           /\ call.at = "construct" => Len(call.slept) = Len(call.failures)
           /\ (call.at = "exited" /\ call.exit_code = 0)
                 => call.ended_by = "KeyboardInterrupt"

(***************************************************************************)
(* The auto date condition                                                 *)
(***************************************************************************)
\* build_auto_date_filter was called with a five-field expression
DateFilterDone == call.fn = "build_auto_date_filter" /\ call.done

\* the granularity the contract gives a five-field expression: fixed minute
\* with * hour is hourly, a minute starting with */ is sub-hourly, a specific
\* weekday is weekly, day 1 is monthly, anything else is daily
StatedGranularity(minute, hour, day, weekday) ==
    IF minute # <<"*">> /\ hour = <<"*">> THEN "hourly"
    ELSE IF Len(minute) >= 2 /\ minute[1] = "*" /\ minute[2] = "/" THEN "sub_hourly"
    ELSE IF weekday # <<"*">> THEN "weekly"
    ELSE IF day = <<"1">> THEN "monthly"
    ELSE "daily"

\* the condition of each shape for a date field and a window
DatetimeBetween(date_field, range) ==
    date_field \o <<" ", "B", "E", "T", "W", "E", "E", "N", " ", "'">> \o DateTimeText(range.start) \o <<"'", " ", "A", "N", "D", " ", "'">>
        \o DateTimeText(range["end"]) \o <<"'">>

DateBetween(date_field, range) ==
    <<"D", "A", "T", "E", "(">> \o date_field \o <<")", " ", "B", "E", "T", "W", "E", "E", "N", " ", "'">> \o DateText(range.start) \o <<"'", " ", "A", "N", "D", " ", "'">>
        \o DateText(range["end"]) \o <<"'">>

DateIsYesterday(date_field, range) ==
    <<"D", "A", "T", "E", "(">> \o date_field \o <<")", " ", "=", " ", "'">> \o DateText(range["end"] - DAY) \o <<"'">>

\* the condition the contract states for a granularity
StatedCondition(granularity, date_field, range) ==
    IF granularity \in {"hourly", "sub_hourly"} THEN DatetimeBetween(date_field, range)
    ELSE IF granularity \in {"weekly", "monthly"} THEN DateBetween(date_field, range)
    ELSE DateIsYesterday(date_field, range)

\* C27: for every five-field cron expression build_auto_date_filter picks
\* the shape of the condition by the classification: fixed minute with * hour
\* is hourly, a minute starting with */ is sub-hourly (both: BETWEEN on
\* start_datetime and end_datetime), a specific weekday is weekly and day 1
\* is monthly (both: DATE(field) BETWEEN start_date and end_date), anything
\* else and a missing expression are daily (DATE(field) = yesterday).
C27_ShapeFollowsClassification ==
    DateFilterDone
        => call.result =
              StatedCondition(IF call.has_cron
                              THEN StatedGranularity(call.minute, call.hour, call.day,
                                                     call.weekday)
                              ELSE "daily",
                              call.date_field, call.range)

\* C28: for hourly and sub-hourly schedules the auto date condition selects
\* the half-open window [start_datetime, end_datetime): a row whose timestamp
\* is end_datetime is not selected, so over consecutive executions whose
\* windows share an edge no row is selected by two executions.
C28_HalfOpenWindow ==
    (call.fn = "consecutive_date_filters")
        => /\ \A n \in 1..Len(call.selected) :
                 call.selected[n] <=> (call.edges[n] <= call.row /\ call.row < call.edges[n + 1])
           /\ \A m, n \in 1..Len(call.selected) :
                 (call.selected[m] /\ call.selected[n]) => m = n

(***************************************************************************)
(* The condition of a static filter                                        *)
(***************************************************************************)
\* the conditions of one filter were built and the filter was not skipped
ConditionDone ==
    /\ call.fn = "where_conditions"
    /\ call.done
    /\ call.filter_def.value.kind # "none"

\* a scalar value as it is written into a condition: a number-typed value
\* bare, any other value between quotes
Written(type, text) == IF type = "number" THEN text ELSE <<"'">> \o text \o <<"'">>

\* the condition the contract states for a filter with a scalar value or a
\* sequence of values
StatedFilterCondition(f) ==
    IF f.operator \in {<<"=">>, <<"!", "=">>, <<">">>, <<">", "=">>, <<"<">>, <<"<", "=">>} /\ f.value.kind # "list"
    THEN f.field \o <<" ">> \o f.operator \o <<" ">> \o Written(f.type, f.value.text)
    ELSE IF f.operator = <<"L", "I", "K", "E">> /\ f.value.kind # "list"
    THEN f.field \o <<" ", "L", "I", "K", "E", " ", "'", "%">> \o f.value.text \o <<"%", "'">>
    ELSE IF f.operator = <<"I", "N">> /\ f.value.kind = "list"
    THEN f.field \o <<" ", "I", "N", " ", "(">>
         \o join(<<",", " ">>, [i \in 1..Len(f.value.items) |-> Written(f.type, f.value.items[i])])
         \o <<")">>
    ELSE f.field \o <<" ", "=", " ">> \o Written(f.type, f.value.text)

\* C29: the condition of a static filter that is not skipped quotes string
\* values and leaves number-typed values bare for every operator; LIKE wraps
\* the value in %...%; IN with a sequence gives a comma-joined list of the
\* values; an operator that is not known (and IN with a value that is no
\* sequence) gives an equality on the field.
C29_ConditionOfAFilter ==
    (ConditionDone /\ (call.filter_def.value.kind = "list"
                          => call.filter_def.operator = <<"I", "N">>))
        => call.result = <<StatedFilterCondition(call.filter_def)>>

(***************************************************************************)
(* The order of the steps of one execution                                 *)
(***************************************************************************)
\* the positions of execute_report within its try block
StepPositions ==
    {"er_begin", "er_load", "er_timerange", "er_build", "er_query", "er_render",
     "er_deliver", "dl_begin", "dl_attempt", "er_finalize"}

\* the place of a position in the order create record, load config, compute
\* window, build query, run query, render file, deliver, finalize
StepRank(position) ==
    CASE position = "er_begin" -> 1
      [] position = "er_load" -> 2
      [] position = "er_timerange" -> 3
      [] position = "er_build" -> 4
      [] position = "er_query" -> 5
      [] position = "er_render" -> 6
      [] position \in {"er_deliver", "dl_begin", "dl_attempt"} -> 7
      [] position = "er_finalize" -> 8

\* C30: within one execution the steps come in the order load config,
\* compute window, build query, run query, render file, deliver, finalize,
\* none skipped and none gone back to: the query is dispatched only after
\* config and datasource were loaded, no channel is invoked before the file
\* is rendered, and an execution that fails before the delivery step has
\* created no delivery log row and sent nothing.
C30_StepsInOrder ==
    /\ [][\A p \in Procs :
            /\ (pc[p] \in StepPositions /\ pc'[p] \in StepPositions /\ pc'[p] # pc[p])
                  => \/ StepRank(pc'[p]) = StepRank(pc[p]) + 1
                     \/ StepRank(pc'[p]) = 7 /\ StepRank(pc[p]) = 7
            /\ pc[p] \in StepPositions
                  => pc'[p] \in StepPositions \cup {"er_except", "er_exit"}
            /\ (pc[p] = "er_except" /\ loc[p].err_step \in
                    {"step1", "step2", "step3", "step4", "step5", "step6"})
                  => delivery_logs' = delivery_logs]_vars
    /\ [](\A p \in Procs :
            /\ (pc[p] \in {"er_query", "er_render"} \/ loc[p].queried)
                  => (loc[p].config_loaded /\ loc[p].time_range # NoRange)
            /\ (pc[p] \in {"dl_begin", "dl_attempt"} \/ Len(sess[p].logs) > 0
                    \/ loc[p].attempts_made > 0)
                  => (loc[p].rendered /\ loc[p].queried)
            /\ (pc[p] \in {"er_except", "er_exit"} /\ loc[p].err_step \in
                    {"step1", "step2", "step3", "step4", "step5", "step6"})
                  => (sess[p].logs = <<>> /\ loc[p].attempts_made = 0))

\* an execution that ran its query, failed while rendering and was stored
\* as failed, with no delivery log row
C30_Witness ==
    \E p \in Procs :
        /\ pc[p] = "er_exit"
        /\ loc[p].err_step = "step6"
        /\ loc[p].queried
        /\ executions[loc[p].execution_id].status = "failed"
        /\ delivery_logs = <<>>

(***************************************************************************)
(* deliver_via_sftp on its own: what it stores in its delivery log row     *)
(***************************************************************************)
\* s.rstrip(chars)
RECURSIVE rstrip_chars(_, _)
rstrip_chars(s, chars) ==
    IF s # <<>> /\ s[Len(s)] \in chars
    THEN rstrip_chars(SubSeq(s, 1, Len(s) - 1), chars)
    ELSE s

\* the value stored in place of the password
MASKED == <<"*", "*", "*", "M", "A", "S", "K", "E", "D", "*", "*", "*">>

\* sftp_config.get(key): None is the empty text here, both are falsy
ConfigGet(sftp_config, key) ==
    IF key \in DOMAIN sftp_config THEN sftp_config[key] ELSE <<>>

\* sftp_config.get('remote_path', '/')
RemotePath(sftp_config) ==
    IF "remote_path" \in DOMAIN sftp_config THEN sftp_config["remote_path"] ELSE <<"/">>

\* a copy of the configuration that masks nothing
UnmaskedConfig(sftp_config) == sftp_config

\* safe_sftp_config: the configuration with the value of 'password' masked
SafeConfig(sftp_config) ==
    [k \in DOMAIN sftp_config |-> IF k = "password" THEN MASKED ELSE sftp_config[k]]

\* the name build_remote_filename gives the uploaded file
remote_filename == <<"r", ".", "c", "s", "v">>

\* full_remote_path of upload_file_via_sftp
FullRemotePath(sftp_config) ==
    rstrip_chars(RemotePath(sftp_config), {"/"}) \o <<"/">> \o remote_filename

\* the first of the required fields that is missing, None when none is
MissingField(sftp_config) ==
    IF ConfigGet(sftp_config, "host") = <<>> THEN "host"
    ELSE IF ConfigGet(sftp_config, "username") = <<>> THEN "username"
    ELSE IF ConfigGet(sftp_config, "password") = <<>> THEN "password"
    ELSE None

\* what an upload can raise: the server refuses the login, the remote
\* directory is missing, the stored size differs from the local one
UploadErrors == {"AuthenticationException", "IOError:directory", "IOError:size"}

\* str(e) of the exception an upload raises
UploadErrorText(sftp_config, error) ==
    CASE error = "AuthenticationException" -> <<"A", "u", "t", "h", "e", "n", "t", "i", "c", "a", "t", "i", "o", "n", " ", "f", "a", "i", "l", "e", "d", ".">>
      [] error = "IOError:directory" ->
            <<"R", "e", "m", "o", "t", "e", " ", "d", "i", "r", "e", "c", "t", "o", "r", "y", " ", "d", "o", "e", "s", " ", "n", "o", "t", " ", "e", "x", "i", "s", "t", ":", " ">>
               \o rstrip_chars(RemotePath(sftp_config), {"/"})
      [] error = "IOError:size" -> <<"U", "p", "l", "o", "a", "d", " ", "v", "e", "r", "i", "f", "i", "c", "a", "t", "i", "o", "n", " ", "f", "a", "i", "l", "e", "d", ":", " ", "s", "i", "z", "e", " ", "m", "i", "s", "m", "a", "t", "c", "h">>

\* the delivery log row as created: status 'pending'
SftpPendingLog == [status |-> "pending", error_message |-> <<>>,
                   delivery_details |-> [method |-> "none"]]

\* the row of the success branch
SftpSuccessLog(sftp_config) ==
    [status |-> "success", error_message |-> <<>>,
     delivery_details |-> [method |-> "sftp", outcome |-> "success",
                           sftp_host |-> ConfigGet(sftp_config, "host"),
                           remote_path |-> FullRemotePath(sftp_config),
                           filename |-> remote_filename]]

\* the row of the except branch
SftpFailedLog(sftp_config, text, attempt) ==
    [status |-> "failed", error_message |-> text,
     delivery_details |-> [method |-> "sftp", outcome |-> "failed",
                           sftp_config |-> SafeConfig(sftp_config),
                           last_attempt |-> attempt]]

\* the row is created, the configuration read and validated; a missing
\* field raises before send_start is bound, and the except branch, which
\* reads send_start first, raises in its turn and leaves the row as it is
SL_Begin ==
    /\ call.fn = "deliver_via_sftp"
    /\ call.stage = "begin"
    /\ call' = IF MissingField(call.sftp_config) # None
               THEN [call EXCEPT !.stage = "raised", !.log = SftpPendingLog]
               ELSE [call EXCEPT !.stage = "loop", !.log = SftpPendingLog, !.attempt = 1]
    /\ UNCHANGED <<now, nextOffset, report_deliveries, executions, schedule, delivery_logs,
                   enabled, pc, cons, loc, sess, hist>>

\* one pass of the retry loop
SL_Attempt ==
    /\ call.fn = "deliver_via_sftp"
    /\ call.stage = "loop"
    /\ \/ call' = [call EXCEPT !.stage = "returned",
                               !.log = SftpSuccessLog(call.sftp_config)]
       \/ \E error \in UploadErrors :
            call' = IF call.attempt < call.max_retry
                    THEN [call EXCEPT !.attempt = @ + 1]
                    ELSE [call EXCEPT !.stage = "returned",
                                      !.log = SftpFailedLog(call.sftp_config,
                                                 UploadErrorText(call.sftp_config, error),
                                                 call.attempt)]
    /\ UNCHANGED <<now, nextOffset, report_deliveries, executions, schedule, delivery_logs,
                   enabled, pc, cons, loc, sess, hist>>

\* configured values: hosts, users, passwords, remote directories
SftpHosts == {<<"h", "1">>, <<"1", "0", ".", "0", ".", "0", ".", "7">>}
SftpUsers == {<<"b", "o", "b">>}
SftpPasswords == {<<"s", "3", "c", "r">>, <<"/", "x">>}
SftpRemotePaths == {<<"/", "o", "u", "t">>, <<"/", "i", "n", "/">>}

\* the delivery_config objects: any of host, username, password and
\* remote_path may be missing
SftpConfigs ==
    UNION { [keys -> SftpHosts \cup SftpUsers \cup SftpPasswords \cup SftpRemotePaths] :
              keys \in SUBSET {"host", "username", "password", "remote_path"} }

\* a configuration whose values are of the kind of their key
WellKinded(sftp_config) ==
    \A k \in DOMAIN sftp_config :
        sftp_config[k] \in (CASE k = "host" -> SftpHosts
                              [] k = "username" -> SftpUsers
                              [] k = "password" -> SftpPasswords
                              [] k = "remote_path" -> SftpRemotePaths)

\* most attempts of one delivery
MaxBudget == 2

InitSftpLog ==
    /\ InitIdle
    /\ call \in [fn : {"deliver_via_sftp"},
                 sftp_config : {c \in SftpConfigs : WellKinded(c)},
                 max_retry : 1..MaxBudget,
                 stage : {"begin"}, attempt : {0}, log : {[status |-> "none"]}]

NextSftpLog == SL_Begin \/ SL_Attempt

SpecSftpLog == InitSftpLog /\ [][NextSftpLog]_vars

(***************************************************************************)
(* C31                                                                     *)
(***************************************************************************)
\* the texts a delivery log row stores in delivery_details
DetailTexts(details) ==
    IF details.method = "none" THEN {}
    ELSE IF details.outcome = "success"
         THEN {details.sftp_host, details.remote_path, details.filename}
         ELSE {details.sftp_config[k] : k \in DOMAIN details.sftp_config}

\* the row deliver_via_sftp wrote, once it has written one
SftpLogWritten ==
    /\ call.fn = "deliver_via_sftp"
    /\ call.stage # "begin"

\* C31: whatever the SFTP configuration and whether the delivery succeeds
\* or fails, neither delivery_details nor error_message of the delivery log
\* row contains the configured password, and the configuration stored in a
\* failed row carries the mask in place of the password (its other values
\* are stored as configured).
C31_PasswordNeverLogged ==
    (SftpLogWritten /\ "password" \in DOMAIN call.sftp_config) =>
        /\ ~contains(call.log.error_message, call.sftp_config["password"])
        /\ \A text \in DetailTexts(call.log.delivery_details) :
              ~contains(text, call.sftp_config["password"])
        /\ call.log.status = "failed" =>
              /\ call.log.delivery_details.sftp_config["password"] = MASKED
              /\ \A k \in DOMAIN call.sftp_config \ {"password"} :
                    call.log.delivery_details.sftp_config[k] = call.sftp_config[k]

\* a delivery with a password that failed on its last attempt and stored
\* its configuration
C31_Witness ==
    /\ call.fn = "deliver_via_sftp"
    /\ call.stage = "returned"
    /\ call.log.status = "failed"
    /\ call.sftp_config["password"] = <<"s", "3", "c", "r">>
    /\ call.attempt = 2
    /\ DOMAIN call.log.delivery_details.sftp_config =
          {"host", "username", "password", "remote_path"}

(***************************************************************************)
(* C32 .. C34: windows and last_run_at over several executions             *)
(***************************************************************************)
\* an execution that has computed its window
HasWindow(p) == loc[p].time_range # NoRange

\* C32: every window an execution computes has start <= end, also when
\* executions of the same schedule run concurrently and one of them took
\* its start instant before another committed a later last_run_at.
C32_WindowIsNotNegative ==
    \A p \in Procs : HasWindow(p) => loc[p].time_range.start <= loc[p].time_range["end"]

\* C33: schedule.last_run_at never decreases: whatever the order in which
\* executions of the schedule start and finish, every write stores a value
\* greater than or equal to the one it replaces.
C33_LastRunAtNeverDecreases ==
    [][schedule'.last_run_at >= schedule.last_run_at]_vars

\* an execution of the schedule that has its window and has not finished
WindowInHand(p) ==
    /\ pc[p] \in Executing \ {"er_load", "er_timerange"}
    /\ loc[p].has_schedule
    /\ HasWindow(p)

\* C34: over successful executions of one schedule that follow each other,
\* the windows are contiguous and do not overlap: each window starts where
\* the window of the previous successful execution ended, also when that
\* one was the first and computed its window by cron_detection.
C34_WindowsAreContiguous ==
    \A p \in Procs :
        (WindowInHand(p) /\ hist.last_ok_end # NoTime)
            => loc[p].time_range.start = hist.last_ok_end

(***************************************************************************)
(* Step 3b of execute_report on its own: the filter variables are merged   *)
(* into the mapping of the time range calculator                           *)
(***************************************************************************)
\* the filters of a report configuration: on a status, on a prefixed
\* amount, on columns with dates in them, one with a list of values
MergedFilters ==
    { Filter("string", <<"s", "t", "a", "t", "u", "s">>, <<"=">>, StrValue(<<"p", "a", "i", "d">>)),
      Filter("number", <<"t", ".", "a", "m", "o", "u", "n", "t">>, <<">", "=">>, IntValue(<<"1", "0", "0">>)),
      Filter("date", <<"c", "r", "e", "a", "t", "e", "d", "_", "a", "t">>, <<">", "=">>, StrValue(<<"2", "0", "2", "5", "-", "0", "1", "-", "0", "1">>)),
      Filter("date", <<"s", ".", "s", "t", "a", "r", "t", "_", "d", "a", "t", "e">>, <<">", "=">>, StrValue(<<"2", "0", "2", "5", "-", "0", "1", "-", "0", "1">>)),
      Filter("string", <<"c", "h", "a", "n", "n", "e", "l">>, <<"I", "N">>, ListValue(<<<<"a">>, <<"b">>>>)),
      Filter("string", <<"r", "e", "g", "i", "o", "n">>, <<"=">>, NoValue) }

\* time_range = calculate_time_range(...); time_range.update(filter_variables)
MV_Call ==
    /\ call.fn = "merge_filter_variables"
    /\ ~call.done
    /\ call' = [call EXCEPT
                   !.calculated = TimeRangeDict(calculate_time_range(call.has, call.sched, call.t)),
                   !.result = WithFilterVariables(
                                 TimeRangeDict(calculate_time_range(call.has, call.sched, call.t)),
                                 call.filters),
                   !.done = TRUE]
    /\ UNCHANGED <<now, nextOffset, report_deliveries, executions, schedule, delivery_logs,
                   enabled, pc, cons, loc, sess, hist>>

\* any schedule state, any list of configured filters
InitMerge ==
    /\ InitIdle
    /\ call \in [fn : {"merge_filter_variables"}, has : BOOLEAN,
                 sched : [last_run_at : {NoTime, StartTime - 1}, cron_period : {0, DAY}],
                 t : {StartTime}, filters : SeqsUpTo(MergedFilters, MaxFilters),
                 calculated : {<<>>}, result : {<<>>}, done : {FALSE}]

NextMerge == MV_Call

SpecMerge == InitMerge /\ [][NextMerge]_vars

(***************************************************************************)
(* C35                                                                     *)
(***************************************************************************)
\* the keys of a mapping
Keys(d) == {d[i].key : i \in 1..Len(d)}

\* C35: merging the variables derived from the static filters into the
\* time-range mapping leaves every key of the time range calculator with
\* the calculator's value, for every configured filter list, filters on
\* date columns included.
C35_MergeKeepsCalculatorKeys ==
    (call.fn = "merge_filter_variables" /\ call.done) =>
        \A key \in Keys(call.calculated) :
            Get(call.result, key) = Get(call.calculated, key)

(***************************************************************************)
(* C36                                                                     *)
(***************************************************************************)
\* C36: in every reachable state a stored execution record with status
\* completed has an empty error_message and a completed_at not earlier than
\* its started_at, and a record with status running has no completed_at,
\* also for an execution id that is run again after an earlier run failed.
C36_CompletedRecordIsClean ==
    \A e \in ExecIds :
        /\ executions[e].status = "completed"
              => /\ executions[e].error_message = None
                 /\ executions[e].completed_at >= executions[e].started_at
        /\ executions[e].status = "running"
              => executions[e].completed_at = NoTime

(***************************************************************************)
(* Step 4a and 4b of execute_report on their own: the two filter passes    *)
(***************************************************************************)
\* report queries: with and without WHERE, with closing clauses, with a
\* subquery in the select list, with a column whose name holds 'where'
ReportQueries ==
    { <<"S", "E", "L", "E", "C", "T", " ", "i", "d", " ", "F", "R", "O", "M", " ", "t">>,
      <<"S", "E", "L", "E", "C", "T", " ", "i", "d", " ", "F", "R", "O", "M", " ", "t", " ", "W", "H", "E", "R", "E", " ", "a", " ", "=", " ", "1">>,
      <<"S", "E", "L", "E", "C", "T", " ", "i", "d", " ", "F", "R", "O", "M", " ", "t", " ", "W", "H", "E", "R", "E", " ", "a", " ", "=", " ", "1", " ", "O", "R", "D", "E", "R", " ", "B", "Y", " ", "i", "d">>,
      <<"s", "e", "l", "e", "c", "t", " ", "i", "d", " ", "f", "r", "o", "m", " ", "t", " ", "w", "h", "e", "r", "e", " ", "a", " ", "=", " ", "1", " ", "l", "i", "m", "i", "t", " ", "5">>,
      <<"S", "E", "L", "E", "C", "T", " ", "i", "d", " ", "F", "R", "O", "M", " ", "t", " ", "O", "R", "D", "E", "R", " ", "B", "Y", " ", "i", "d", " ", "L", "I", "M", "I", "T", " ", "5">>,
      <<"S", "E", "L", "E", "C", "T", " ", "i", "d", " ", "F", "R", "O", "M", " ", "t", " ", "G", "R", "O", "U", "P", " ", "B", "Y", " ", "i", "d", " ", "H", "A", "V", "I", "N", "G", " ", "n", " ", ">", " ", "1">>,
      <<"S", "E", "L", "E", "C", "T", " ", "i", "d", ",", " ", "(", "S", "E", "L", "E", "C", "T", " ", "n", " ", "F", "R", "O", "M", " ", "u", " ", "O", "R", "D", "E", "R", " ", "B", "Y", " ", "n", " ", "L", "I", "M", "I", "T", " ", "1", ")", " ", "m", " ", "F", "R", "O", "M", " ", "t", " ", "W", "H", "E", "R", "E", " ", "a", " ", "=", " ", "1">>,
      <<"S", "E", "L", "E", "C", "T", " ", "i", "d", ",", " ", "s", "o", "m", "e", "w", "h", "e", "r", "e", " ", "F", "R", "O", "M", " ", "t">> }

\* the filters of the report configuration
PassFilters ==
    { Filter("string", <<"s", "t", "a", "t", "u", "s">>, <<"=">>, StrValue(<<"p", "a", "i", "d">>)),
      Filter("number", <<"a", "m", "o", "u", "n", "t">>, <<">", "=">>, IntValue(<<"1", "0", "0">>)) }

\* the time range of an execution without schedule at the first instant
PassTimeRange == TimeRangeDict(DefaultWindow(StartTime))

\* step 4a: the automatic date filter is inserted
IN_DatePass ==
    /\ call.fn = "filter_passes"
    /\ call.passes = 0
    /\ call' = [call EXCEPT !.dated = WithDateFilter(call.report_query, call.date_field,
                                                     PassTimeRange, <<>>),
                            !.passes = 1]
    /\ UNCHANGED <<now, nextOffset, report_deliveries, executions, schedule, delivery_logs,
                   enabled, pc, cons, loc, sess, hist>>

\* step 4b: the static filters are inserted into what step 4a returned
IN_StaticPass ==
    /\ call.fn = "filter_passes"
    /\ call.passes = 1
    /\ call' = [call EXCEPT !.result = WithStaticFilters(call.dated, call.filters,
                                                         PassTimeRange),
                            !.passes = 2]
    /\ UNCHANGED <<now, nextOffset, report_deliveries, executions, schedule, delivery_logs,
                   enabled, pc, cons, loc, sess, hist>>

\* any report query, with or without a date field, any list of filters
InitPasses ==
    /\ InitIdle
    /\ call \in [fn : {"filter_passes"}, report_query : ReportQueries,
                 date_field : {<<>>, <<"c", "r", "e", "a", "t", "e", "d", "_", "a", "t">>},
                 filters : SeqsUpTo(PassFilters, MaxFilters),
                 dated : {<<>>}, result : {<<>>}, passes : {0}]

NextPasses == IN_DatePass \/ IN_StaticPass

SpecPasses == InitPasses /\ [][NextPasses]_vars

(***************************************************************************)
(* C37                                                                     *)
(***************************************************************************)
\* the characters names are made of
NameChars ==
    {LowerLetters[i] : i \in 1..Len(LowerLetters)}
       \cup {UpperLetters[i] : i \in 1..Len(UpperLetters)}
       \cup {Digits[i] : i \in 1..Len(Digits)} \cup {"_"}

\* the keyword WHERE, in whatever case, stands as a word of its own at
\* position i of the query (counted from 0)
WhereKeywordAt(query, i) ==
    /\ i + 5 <= Len(query)
    /\ SameFolded(SubSeq(query, i + 1, i + 5), <<"w", "h", "e", "r", "e">>)
    /\ i = 0 \/ query[i] \notin NameChars
    /\ i + 5 = Len(query) \/ query[i + 6] \notin NameChars

\* out is query with a clause that begins with AND inserted at position k
AndInsertedAt(query, out, k) ==
    LET head == rstrip(SubSeq(query, 1, k)) \o <<"\n", "A", "N", "D", " ">>
        tail == <<"\n">> \o SubSeq(query, k + 1, Len(query))
    IN  /\ Len(out) > Len(head) + Len(tail)
        /\ SubSeq(out, 1, Len(head)) = head
        /\ SubSeq(out, Len(out) - Len(tail) + 1, Len(out)) = tail

\* a pass that took query and returned out put no AND clause where no WHERE
\* keyword stands before it
AndFollowsWhere(query, out) ==
    \A k \in 0..Len(query) :
        AndInsertedAt(query, out, k)
            => \E i \in 0..(k - 5) : WhereKeywordAt(query, i)

\* C37: whenever a filter pass, the automatic date filter or the static
\* filters, inserts a clause that begins with AND, a WHERE keyword of the
\* query stands before the insertion point; a WHERE that only occurs after
\* the first ORDER BY / LIMIT / GROUP BY / HAVING, or only inside a name,
\* never brings an AND clause without a WHERE before it.
C37_AndOnlyAfterWhere ==
    call.fn = "filter_passes" =>
        /\ call.passes >= 1 => AndFollowsWhere(call.report_query, call.dated)
        /\ call.passes = 2 => AndFollowsWhere(call.dated, call.result)

(***************************************************************************)
(* C38                                                                     *)
(***************************************************************************)
\* C38: whenever deliver_via_email or deliver_via_sftp returns, the delivery
\* log row it created is success or failed and never still pending, for
\* every max_retry the delivery stores, negative values included.
C38_ReturnedRowIsTerminal ==
    \A p \in Procs :
        ChannelReturned(p) => DeliveredLog(p).status \in {"success", "failed"}

(***************************************************************************)
(* C39                                                                     *)
(***************************************************************************)
\* worker p is handling a message: it has received it and has not yet
\* committed its offset
Handling(p) == pc[p] \notin {"poll", "closed", "killed"}

\* C39: when two queue handlers process messages that carry the same
\* execution id at the same time, at most one of them runs the query and
\* calls the delivery channels.
C39_OneHandlerPerExecutionId ==
    \A p, q \in Procs :
        (/\ p # q
         /\ Handling(p) /\ Handling(q)
         /\ loc[p].execution_id = loc[q].execution_id)
            => /\ ~(loc[p].queried /\ loc[q].queried)
               /\ ~(loc[p].delivery_count > 0 /\ loc[q].delivery_count > 0)

(***************************************************************************)
(* C40                                                                     *)
(***************************************************************************)
\* worker p commits its execution as completed in this step
Completes(p) ==
    /\ pc[p] = "er_finalize"
    /\ pc'[p] = "er_exit"
    /\ loc'[p].result = "completed"

\* a delivery log row whose delivery has ended
TerminalLog(row) == row.status \in {"success", "failed"}

\* the counts of a row add up
CountsAddUp(row) == row.success_count + row.failure_count = row.recipient_count

\* C40: for every completed execution deliveries_sent is the number of
\* active deliveries of kind email or sftp and the number of delivery log
\* rows the execution created, however many of them succeeded; and every
\* delivery log row that is success or failed has success_count +
\* failure_count = recipient_count.
C40_DeliveriesSentCountsLogRows ==
    /\ [][\A p \in Procs :
            Completes(p) =>
                /\ loc[p].delivery_count = Len(ChannelIds(p, Len(loc[p].deliveries)))
                /\ loc[p].delivery_count = Len(sess[p].logs)
                /\ Len(delivery_logs') = Len(delivery_logs) + loc[p].delivery_count
                /\ loc'[p].delivery_count = loc[p].delivery_count]_vars
    /\ [](/\ \A i \in 1..Len(delivery_logs) :
                TerminalLog(delivery_logs[i]) => CountsAddUp(delivery_logs[i])
          /\ \A p \in Procs : \A i \in 1..Len(sess[p].logs) :
                TerminalLog(sess[p].logs[i]) => CountsAddUp(sess[p].logs[i]))

\* a completed execution with three deliveries, one of another kind: two
\* deliveries sent, two log rows, the mail to two recipients failed and the
\* file transfer went through
C40_Witness ==
    \E p \in Procs :
        /\ pc[p] = "er_exit"
        /\ loc[p].result = "completed"
        /\ Len(loc[p].deliveries) = 3
        /\ loc[p].delivery_count = 2
        /\ Len(delivery_logs) = 2
        /\ delivery_logs[1].status = "failed"
        /\ delivery_logs[1].failure_count = 2
        /\ delivery_logs[2].status = "success"
=============================================================================
